---- MODULE Spec2Model ----
(***************************************************************************)
(* Container-stack orchestration of HosMonitorDash.                        *)
(*                                                                         *)
(* The facade is DatabaseStorage (server/database-storage.ts, the instance *)
(* exported as `storage` by server/storage.ts), which talks to the engine  *)
(* through DockerEngine (server/docker-engine.ts) and is called by the     *)
(* routes of server/routes.ts.                                             *)
(*                                                                         *)
(* server/database-storage.ts holds the class twice: the first one lists   *)
(* and drives the engine's containers (Spec; SpecAgg and SpecGroup for the *)
(* aggregation of arbitrary listings; SpecEmitFault for a telemetry        *)
(* recorder that rejects), the second one keeps seeded stacks in memory    *)
(* and never asks the engine (SpecMem).                                    *)
(*                                                                         *)
(* A JavaScript string is modelled as a sequence of one-character strings, *)
(* so that slicing, prefix stripping, case mapping and ordering are        *)
(* computed and not assumed.  An optional value (a label that may be       *)
(* missing, Names[0]) is a sequence of length 0 (undefined) or 1.          *)
(***************************************************************************)
EXTENDS Integers, Sequences, FiniteSets, TLC

(***************************************************************************)
(* Strings                                                                 *)
(***************************************************************************)
LowerChars == <<"a","b","c","d","e","f","g","h","i","j","k","l","m",
                "n","o","p","q","r","s","t","u","v","w","x","y","z">>

UpperChars == <<"A","B","C","D","E","F","G","H","I","J","K","L","M",
                "N","O","P","Q","R","S","T","U","V","W","X","Y","Z">>

DigitChars == <<"0","1","2","3","4","5","6","7","8","9">>

Range(s) == {s[i] : i \in DOMAIN s}

IndexOf(c, s) == CHOOSE i \in DOMAIN s : s[i] = c

toUpperCase(c) == IF c \in Range(LowerChars) THEN UpperChars[IndexOf(c, LowerChars)] ELSE c

toLowerCase(c) == IF c \in Range(UpperChars) THEN LowerChars[IndexOf(c, UpperChars)] ELSE c

StrLower(s) == [i \in DOMAIN s |-> toLowerCase(s[i])]

\* \w of a JavaScript regular expression
IsWordChar(c) == c \in Range(LowerChars) \cup Range(UpperChars) \cup Range(DigitChars) \cup {"_"}

\* s.slice(from) for 0 <= from
Drop(s, n) == SubSeq(s, n + 1, Len(s))

\* s.slice(0, n)
Take(s, n) == SubSeq(s, 1, IF n < Len(s) THEN n ELSE Len(s))

\* the characters in UTF-16 code unit order (what Array.prototype.sort()
\* without a comparator orders strings by)
CodeUnitOrder == <<" ", ",", "-", ".", "/">> \o DigitChars \o <<":">> \o UpperChars
                   \o <<"_">> \o LowerChars

CodeUnit(c) == IndexOf(c, CodeUnitOrder)

RECURSIVE CodeUnitLess(_, _)
CodeUnitLess(a, b) ==
  IF b = <<>> THEN FALSE
  ELSE IF a = <<>> THEN TRUE
  ELSE IF CodeUnit(a[1]) # CodeUnit(b[1]) THEN CodeUnit(a[1]) < CodeUnit(b[1])
  ELSE CodeUnitLess(Tail(a), Tail(b))

\* String.prototype.localeCompare with the default (root) collation:
\* primary weights first over the whole string (punctuation before digits
\* before letters, case ignored), then case (lower before upper).
CollationOrder == <<" ", "_", "-", ",", ":", ".", "/">> \o DigitChars \o LowerChars

PrimaryWeight(c) == IndexOf(toLowerCase(c), CollationOrder)

CaseWeight(c) == IF c \in Range(UpperChars) THEN 1 ELSE 0

RECURSIVE WeightCompare(_, _, _)
WeightCompare(W(_), a, b) ==
  IF a = <<>> /\ b = <<>> THEN 0
  ELSE IF a = <<>> THEN -1
  ELSE IF b = <<>> THEN 1
  ELSE IF W(a[1]) < W(b[1]) THEN -1
  ELSE IF W(a[1]) > W(b[1]) THEN 1
  ELSE WeightCompare(W, Tail(a), Tail(b))

localeCompare(a, b) ==
  LET p == WeightCompare(PrimaryWeight, a, b)
  IN  IF p # 0 THEN p ELSE WeightCompare(CaseWeight, a, b)

\* Array.prototype.sort is stable: an element is inserted after the
\* elements it does not precede.
RECURSIVE InsertSorted(_, _, _)
InsertSorted(Less(_, _), x, sorted) ==
  IF sorted = <<>> THEN <<x>>
  ELSE IF Less(x, sorted[1]) THEN <<x>> \o sorted
  ELSE <<sorted[1]>> \o InsertSorted(Less, x, Tail(sorted))

RECURSIVE StableSort(_, _)
StableSort(Less(_, _), s) ==
  IF s = <<>> THEN <<>>
  ELSE InsertSorted(Less, s[Len(s)], StableSort(Less, SubSeq(s, 1, Len(s) - 1)))

\* Number to decimal string
RECURSIVE DecStr(_)
DecStr(n) == IF n < 10 THEN <<DigitChars[n + 1]>>
             ELSE DecStr(n \div 10) \o <<DigitChars[(n % 10) + 1]>>

\* value.replace(/^\//, "")
StripLeadingSlash(s) == IF s # <<>> /\ s[1] = "/" THEN Tail(s) ELSE s


(***************************************************************************)
(* Stack aggregation: DatabaseStorage, server/database-storage.ts          *)
(*                                                                         *)
(* A container summary (DockerContainerSummary) is a record                *)
(*   [Id, Names, Image, State, Status, Ports, Labels]                      *)
(* where Labels holds the four labels the code reads, each optional.       *)
(* State is the engine's raw state string, kept as an atom because the     *)
(* code only switches on it.  The wall clock (updatedAt) is not modelled.  *)
(***************************************************************************)
Truthy(opt) == opt # <<>> /\ opt[1] # <<>>

resolveStackId(container) ==
  LET project == container.Labels.project
  IN  IF Truthy(project) THEN project[1]
      ELSE IF container.Names # <<>> THEN StripLeadingSlash(container.Names[1])
      ELSE Take(container.Id, 12)

resolveServiceName(container) ==
  LET composeService == container.Labels.service
  IN  IF Truthy(composeService) THEN composeService[1]
      ELSE IF container.Names # <<>> THEN StripLeadingSlash(container.Names[1])
      ELSE Take(container.Id, 12)

mapContainerState(state) ==
  CASE state = "running" -> "running"
    [] state = "restarting" -> "restarting"
    [] state \in {"paused", "created", "exited"} -> "stopped"
    [] state \in {"dead", "removing"} -> "error"
    [] OTHER -> "error"

\* an aggregate that takes a service without a restarting member for
\* stopped as soon as one member is stopped
aggregateServiceState_AnyStopped(states) ==
  IF \A i \in DOMAIN states : states[i] = "running" THEN "running"
  ELSE IF \E i \in DOMAIN states : states[i] = "restarting" THEN "restarting"
  ELSE IF \E i \in DOMAIN states : states[i] = "stopped" THEN "stopped"
  ELSE "error"

aggregateServiceState(states) ==
  IF \A i \in DOMAIN states : states[i] = "running" THEN "running"
  ELSE IF \A i \in DOMAIN states : states[i] = "stopped" THEN "stopped"
  ELSE IF \E i \in DOMAIN states : states[i] = "restarting" THEN "restarting"
  ELSE "error"

\* mutant: a stack counts as running as soon as one service runs
aggregateStackStatus_AnyRunning(services) ==
  IF Len(services) = 0 THEN "stopped"
  ELSE IF \E i \in DOMAIN services : services[i].state = "running" THEN "running"
  ELSE IF \A i \in DOMAIN services : services[i].state = "stopped" THEN "stopped"
  ELSE "degraded"

aggregateStackStatus(services) ==
  IF Len(services) = 0 THEN "stopped"
  ELSE IF \A i \in DOMAIN services : services[i].state = "running" THEN "running"
  ELSE IF \A i \in DOMAIN services : services[i].state = "stopped" THEN "stopped"
  ELSE "degraded"

\* configFiles.split(",")[0]
RECURSIVE BeforeComma(_)
BeforeComma(s) ==
  IF s = <<>> \/ s[1] = "," THEN <<>> ELSE <<s[1]>> \o BeforeComma(Tail(s))

resolveStackPath(container) ==
  LET configFiles == container.Labels.config_files
      workingDir == container.Labels.working_dir
  IN  IF Truthy(configFiles) THEN BeforeComma(configFiles[1])
      ELSE IF Truthy(workingDir) THEN workingDir[1]
      ELSE IF container.Names # <<>> THEN StripLeadingSlash(container.Names[1])
      ELSE Take(container.Id, 12)

\* s.replace(/C+/g, " ") for a character class C
RECURSIVE CollapseRuns(_, _, _)
CollapseRuns(InClass(_), s, inRun) ==
  IF s = <<>> THEN <<>>
  ELSE IF InClass(s[1])
       THEN (IF inRun THEN <<>> ELSE <<" ">>) \o CollapseRuns(InClass, Tail(s), TRUE)
       ELSE <<s[1]>> \o CollapseRuns(InClass, Tail(s), FALSE)

IsDashOrUnderscore(c) == c \in {"-", "_"}

IsSpace(c) == c = " "

RECURSIVE TrimStart(_)
TrimStart(s) == IF s # <<>> /\ IsSpace(s[1]) THEN TrimStart(Tail(s)) ELSE s

RECURSIVE TrimEnd(_)
TrimEnd(s) ==
  IF s # <<>> /\ IsSpace(s[Len(s)]) THEN TrimEnd(SubSeq(s, 1, Len(s) - 1)) ELSE s

\* s.replace(/\b\w/g, char => char.toUpperCase())
CapitalizeWords(s) ==
  [i \in DOMAIN s |->
     IF IsWordChar(s[i]) /\ (i = 1 \/ ~IsWordChar(s[i - 1]))
     THEN toUpperCase(s[i]) ELSE s[i]]

\* a formatter that leaves the words as they are written
formatDisplayName_NoTitle(value) ==
  TrimEnd(TrimStart(
    CollapseRuns(IsSpace, CollapseRuns(IsDashOrUnderscore, value, FALSE), FALSE)))

formatDisplayName(value) ==
  CapitalizeWords(
    TrimEnd(TrimStart(
      CollapseRuns(IsSpace, CollapseRuns(IsDashOrUnderscore, value, FALSE), FALSE))))

\* `${publicPort}${port.PrivatePort}/${port.Type}`; a port number of 0
\* stands for a missing (falsy) one
PortString(port) ==
  (IF port.PublicPort # 0 THEN DecStr(port.PublicPort) \o <<":">> ELSE <<>>)
    \o DecStr(port.PrivatePort) \o <<"/">> \o port.Type

\* a service entry that keeps its ports in a list
RECURSIVE AddPorts_KeepDuplicates(_, _)
AddPorts_KeepDuplicates(set, ports) ==
  IF ports = <<>> THEN set
  ELSE IF ports[1].PrivatePort = 0 THEN AddPorts_KeepDuplicates(set, Tail(ports))
  ELSE AddPorts_KeepDuplicates(Append(set, PortString(ports[1])), Tail(ports))

\* the ports of one container added to the Set of a service entry
RECURSIVE AddPorts(_, _)
AddPorts(set, ports) ==
  IF ports = <<>> THEN set
  ELSE LET port == ports[1]
           str == PortString(port)
       IN  IF port.PrivatePort = 0 THEN AddPorts(set, Tail(ports))
           ELSE IF str \in Range(set) THEN AddPorts(set, Tail(ports))
           ELSE AddPorts(Append(set, str), Tail(ports))

\* one turn of the loop of buildStackFromContainers over the Map
\* servicesByName, kept as a sequence in insertion order
FoldContainer(servicesByName, container) ==
  LET serviceName == resolveServiceName(container)
      known == \E i \in DOMAIN servicesByName : servicesByName[i].name = serviceName
      entry == IF known
               THEN servicesByName[CHOOSE i \in DOMAIN servicesByName :
                                     servicesByName[i].name = serviceName]
               ELSE [name |-> serviceName, image |-> container.Image, replicas |-> 0,
                     states |-> <<>>, ports |-> <<>>, events |-> <<>>]
      updated == [name |-> serviceName,
                  image |-> container.Image,
                  replicas |-> entry.replicas + 1,
                  states |-> Append(entry.states, mapContainerState(container.State)),
                  ports |-> AddPorts(entry.ports, container.Ports),
                  events |-> Append(entry.events, container.Status)]
  IN  IF known
      THEN [i \in DOMAIN servicesByName |->
              IF servicesByName[i].name = serviceName THEN updated ELSE servicesByName[i]]
      ELSE Append(servicesByName, updated)

RECURSIVE FoldContainers(_, _)
FoldContainers(servicesByName, containers) ==
  IF containers = <<>> THEN servicesByName
  ELSE FoldContainers(FoldContainer(servicesByName, containers[1]), Tail(containers))

\* data.events.find(event => event.length > 0) ?? ""
FirstNonEmpty(events) ==
  IF \E i \in DOMAIN events : events[i] # <<>>
  THEN events[CHOOSE i \in DOMAIN events :
                events[i] # <<>> /\ \A j \in 1..(i - 1) : events[j] = <<>>]
  ELSE <<>>

ServiceNameLess(a, b) == localeCompare(a.name, b.name) < 0

buildStackFromContainers(stackId, containers) ==
  LET primary == containers[1]
      projectName == IF primary.Labels.project # <<>> THEN primary.Labels.project[1]
                     ELSE stackId
      servicesByName == FoldContainers(<<>>, containers)
      unsorted == [i \in DOMAIN servicesByName |->
                     [name |-> servicesByName[i].name,
                      image |-> servicesByName[i].image,
                      replicas |-> servicesByName[i].replicas,
                      state |-> aggregateServiceState(servicesByName[i].states),
                      ports |-> StableSort(CodeUnitLess, servicesByName[i].ports),
                      lastEvent |-> FirstNonEmpty(servicesByName[i].events)]]
      services == StableSort(ServiceNameLess, unsorted)
  IN  [id |-> stackId,
       name |-> formatDisplayName(projectName),
       projectName |-> projectName,
       path |-> resolveStackPath(primary),
       status |-> aggregateStackStatus(services),
       services |-> services,
       lastAction |-> primary.Status]

\* mutant: a container of a stack already seen replaces the stack's entries
RECURSIVE GroupContainers_Overwrite(_, _)
GroupContainers_Overwrite(grouped, containers) ==
  IF containers = <<>> THEN grouped
  ELSE LET container == containers[1]
           stackId == resolveStackId(container)
           next == IF \E i \in DOMAIN grouped : grouped[i].stackId = stackId
                   THEN [i \in DOMAIN grouped |->
                           IF grouped[i].stackId = stackId
                           THEN [grouped[i] EXCEPT !.entries = <<container>>]
                           ELSE grouped[i]]
                   ELSE Append(grouped, [stackId |-> stackId, entries |-> <<container>>])
       IN  GroupContainers_Overwrite(next, Tail(containers))

\* the Map `grouped` of loadDockerStacks, as a sequence of
\* [stackId, entries] in insertion order
RECURSIVE GroupContainers(_, _)
GroupContainers(grouped, containers) ==
  IF containers = <<>> THEN grouped
  ELSE LET container == containers[1]
           stackId == resolveStackId(container)
           next == IF \E i \in DOMAIN grouped : grouped[i].stackId = stackId
                   THEN [i \in DOMAIN grouped |->
                           IF grouped[i].stackId = stackId
                           THEN [grouped[i] EXCEPT !.entries = Append(@, container)]
                           ELSE grouped[i]]
                   ELSE Append(grouped, [stackId |-> stackId, entries |-> <<container>>])
       IN  GroupContainers(next, Tail(containers))


(***************************************************************************)
(* The engine and the facade's state                                       *)
(***************************************************************************)
VARIABLES
  socket,           \* the control socket: "up", "absent" (no socket file) or
                    \* "refused" (the file exists, nothing answers)
  containers,       \* what GET /containers/json?all=1 lists, in engine order
  telemetryEvents,  \* DatabaseStorage.telemetryEvents, newest first
  call,             \* per caller: the performContainerAction call in progress
  listResult,       \* what the last getContainerStacks call returned or threw,
                    \* kept for as long as the engine stays as that call saw it
  listRead,         \* the engine's answer that call read (<<>>: nothing read)
  listedTwice,      \* the call before it returned too, with no change of the
                    \* engine in between
  nOps,             \* performContainerAction calls begun so far
  nExternal,        \* engine changes made by others so far
  containerStacks,  \* DatabaseStorage.containerStacks of the revision that
                    \* keeps its stacks in memory, in insertion order
  clock,            \* minutes since construction (what new Date() reads)
  servers,          \* the rows of the servers table, in insertion order
  alerts,           \* the rows of the alerts table, in insertion order
  serverMetrics,    \* the rows of the server_metrics table, in insertion order
  ticks,            \* per timer firing: the metrics callback in progress
  wire              \* what the last response or WebSocket send carried

vars == <<socket, containers, telemetryEvents, call, listResult, listRead,
          listedTwice, nOps, nExternal, containerStacks, clock,
          servers, serverMetrics, alerts, ticks, wire>>

\* the state only the in-memory revision has
mem == <<containerStacks, clock>>

lists == <<listResult, listRead, listedTwice>>

\* the monitoring tables and what was last sent to a client
dash == <<servers, serverMetrics, alerts, ticks, wire>>

\* no server registered, no alert raised, no timer callback running
DashIdle ==
  /\ servers = <<>>
  /\ serverMetrics = <<>>
  /\ alerts = <<>>
  /\ ticks = <<>>
  /\ wire = <<>>

\* bounds of the exploration
MaxOps == 1

MaxExternal == 1

MaxContainers == 3

Callers == {"c1", "c2"}

Actions == {"up", "down", "restart", "pull"}

\* lifecycle states the engine reports (the last one stands for any string
\* outside the documented vocabulary)
RawStates == {"running", "restarting", "paused", "created", "exited", "dead",
              "removing", "unknown"}

S_papem_core == <<"p","a","p","e","m","-","c","o","r","e">>

S_api == <<"a","p","i">>

S_API == <<"A","P","I">>

S_proxy == <<"p","r","o","x","y">>

S_edge == <<"e","d","g","e">>

S_db == <<"d","b">>

S_Db == <<"D","b">>

S_ghost == <<"g","h","o","s","t">>

S_tcp == <<"t","c","p">>

S_udp == <<"u","d","p">>

NoLabels == [project |-> <<>>, service |-> <<>>, config_files |-> <<>>, working_dir |-> <<>>]

\* the containers of the engine when the exploration starts: a compose
\* project of two services (one with a container_name of its own) and a
\* container that belongs to no project
SeedContainers ==
  << [Id |-> <<"a","1">>, Names |-> << <<"/">> \o S_papem_core \o <<"-">> \o S_api \o <<"-","1">> >>,
      Image |-> S_api \o <<":","1">>, State |-> "running", Status |-> <<"U","p">>,
      Ports |-> << [PrivatePort |-> 80, PublicPort |-> 8080, Type |-> S_tcp] >>,
      Labels |-> [NoLabels EXCEPT !.project = <<S_papem_core>>, !.service = <<S_api>>,
                                  !.working_dir = << <<"/","o","p","t">> >>]],
     [Id |-> <<"b","2">>, Names |-> << <<"/">> \o S_edge >>,
      Image |-> S_proxy, State |-> "running", Status |-> <<"U","p">>,
      Ports |-> <<>>,
      Labels |-> [NoLabels EXCEPT !.project = <<S_papem_core>>, !.service = <<S_proxy>>]],
     [Id |-> <<"c","3">>, Names |-> << <<"/">> \o S_db >>,
      Image |-> S_db \o <<":","9">>, State |-> "exited", Status |-> <<"E","x","i","t","e","d">>,
      Ports |-> << [PrivatePort |-> 90, PublicPort |-> 0, Type |-> S_tcp] >>,
      Labels |-> NoLabels] >>

\* the events initializeOperationalData seeds the log with (id and
\* recordedAt, a random UUID and the wall clock, are not modelled)
SeedTelemetry ==
  << [serverId |-> <<"server-3">>, metric |-> <<"service.failure">>, value |-> 1,
      unit |-> <<"ocorrencia">>, status |-> "critical",
      message |-> <<"collector apresentou falha ao iniciar">>],
     [serverId |-> <<"server-1">>, metric |-> <<"cpu.usage">>, value |-> 72,
      unit |-> <<"%">>, status |-> "warning", message |-> <<"CPU do API acima de 70%">>],
     [serverId |-> <<"server-2">>, metric |-> <<"backup.duration">>, value |-> 5,
      unit |-> <<"min">>, status |-> "ok", message |-> <<"Backup do Postgres finalizado">>],
     [serverId |-> <<"server-4">>, metric |-> <<"stack.state">>, value |-> 0,
      unit |-> <<"servicos">>, status |-> "warning",
      message |-> <<"Stack de monitoring permanece pausado">>],
     [serverId |-> <<"server-6">>, metric |-> <<"mail.queue">>, value |-> 24,
      unit |-> <<"mensagens">>, status |-> "ok", message |-> <<"Fila de emails normalizada">>] >>

telemetryLimit == 200

(***************************************************************************)
(* Values a facade call ends with.  A call returns a value or throws:      *)
(*   [kind |-> "value", value |-> v, error |-> <<>>]  or                   *)
(*   [kind |-> "throw", value |-> <<>>, error |-> <<[name, message]>>]     *)
(* where name is the error's class and message a sequence of text pieces.  *)
(* A returned list is the sequence itself; a returned `Stack | undefined`  *)
(* is a sequence of one stack or of none.                                  *)
(***************************************************************************)
Return(v) == [kind |-> "value", value |-> v, error |-> <<>>]

Throw(name, message) ==
  [kind |-> "throw", value |-> <<>>, error |-> <<[name |-> name, message |-> message]>>]

NoResult == [kind |-> "none", value |-> <<>>, error |-> <<>>]

(***************************************************************************)
(* DockerEngine, server/docker-engine.ts                                   *)
(***************************************************************************)
isAvailable(sock) == sock # "absent"

\* the body the engine sends with a status of failure, as one token
RawBody == <<"raw">>

\* DockerEngine.request: what the promise settles with, given the socket
\* and the status code the engine answers with
request(sock, status, body) ==
  IF ~isAvailable(sock) THEN Throw("Error", <<"Docker socket not found at ", "socketPath">>)
  ELSE IF sock = "refused" THEN Throw("Error", <<"connect ECONNREFUSED">>)
  ELSE IF status >= 400
       THEN Throw("Error", <<"Docker API error ">> \o DecStr(status) \o <<": ">> \o RawBody)
  ELSE Return(body)

listContainers(sock, status, cs) == request(sock, status, cs)


\* the request each DockerEngine method sends: its kind, the id in its path
\* or the value of its fromImage parameter as the engine decodes it, and its
\* tag parameter (none is ever sent)
startContainer(id) == [op |-> "start", arg |-> id, tag |-> <<>>]

stopContainer(id) == [op |-> "stop", arg |-> id, tag |-> <<>>]

restartContainer(id) == [op |-> "restart", arg |-> id, tag |-> <<>>]

pullImage(image) == [op |-> "pull", arg |-> image, tag |-> <<>>]

(***************************************************************************)
(* The engine's side of a request (the engine is not code of this          *)
(* repository: it may answer any request with a failure, and a request it  *)
(* accepts has the effect its name says)                                   *)
(***************************************************************************)
ListStatuses == {200, 500}

HasContainer(cs, id) == \E i \in DOMAIN cs : cs[i].Id = id

\* the status codes the engine may answer a mutating request with
EngineAnswers(cs, req) ==
  IF req.op = "pull" THEN {200, 500}
  ELSE IF ~HasContainer(cs, req.arg) THEN {404}
  ELSE {204, 500}
       \cup (IF \E i \in DOMAIN cs :
                  /\ cs[i].Id = req.arg
                  /\ \/ req.op = "start" /\ cs[i].State = "running"
                     \/ req.op = "stop" /\ cs[i].State \in {"exited", "created"}
             THEN {304} ELSE {})

S_Up == <<"U","p">>

S_Exited == <<"E","x","i","t","e","d">>

\* the status line the engine reports with a state
StatusOf(state) ==
  CASE state = "running" -> S_Up
    [] state = "exited" -> S_Exited
    [] OTHER -> <<state>>

\* the containers after the engine has carried out an accepted request
EngineApply(cs, req, status) ==
  IF status \notin {200, 204} \/ req.op = "pull" THEN cs
  ELSE [i \in DOMAIN cs |->
          IF cs[i].Id # req.arg THEN cs[i]
          ELSE IF req.op = "stop"
               THEN [cs[i] EXCEPT !.State = "exited", !.Status = StatusOf("exited")]
               ELSE [cs[i] EXCEPT !.State = "running", !.Status = StatusOf("running")]]

(***************************************************************************)
(* DatabaseStorage: listing                                                *)
(***************************************************************************)
loadDockerStacks(sock, status, cs) ==
  IF ~isAvailable(sock) THEN Return(<<>>)
  ELSE LET listed == listContainers(sock, status, cs)
       IN  IF listed.kind = "throw" THEN listed
           ELSE IF Len(listed.value) = 0 THEN Return(<<>>)
           ELSE LET grouped == GroupContainers(<<>>, listed.value)
                IN  Return([i \in DOMAIN grouped |->
                              buildStackFromContainers(grouped[i].stackId, grouped[i].entries)])

StackNameLess(a, b) == localeCompare(a.name, b.name) < 0

\* a listing that returns the stacks in the order the Map holds them
getContainerStacks_Unsorted(sock, status, cs) == loadDockerStacks(sock, status, cs)

getContainerStacks(sock, status, cs) ==
  LET stacks == loadDockerStacks(sock, status, cs)
  IN  IF stacks.kind = "throw" THEN stacks
      ELSE Return(StableSort(StackNameLess, stacks.value))

(***************************************************************************)
(* DatabaseStorage: actions                                                *)
(***************************************************************************)
\* a filter that compares the names as they are written
filterContainersByService_CaseSensitive(cs, services) ==
  IF services = <<>> \/ Len(services[1]) = 0 THEN cs
  ELSE SelectSeq(cs, LAMBDA c : resolveServiceName(c) \in Range(services[1]))

filterContainersByService(cs, services) ==
  IF services = <<>> \/ Len(services[1]) = 0 THEN cs
  ELSE LET normalized == {StrLower(services[1][k]) : k \in DOMAIN services[1]}
       IN  SelectSeq(cs, LAMBDA c : StrLower(resolveServiceName(c)) \in normalized)

\* a facade that restarts a container by starting it
applyContainerAction_RestartAsStart(container, action) ==
  CASE action \in {"up", "restart"} -> startContainer(container.Id)
    [] action = "down" -> stopContainer(container.Id)
    [] action = "pull" -> pullImage(container.Image)

applyContainerAction(container, action) ==
  CASE action = "up" -> startContainer(container.Id)
    [] action = "down" -> stopContainer(container.Id)
    [] action = "restart" -> restartContainer(container.Id)
    [] action = "pull" -> pullImage(container.Image)

describeContainerAction(action, count) ==
  LET suffix == IF count = 1 THEN "container" ELSE "containers"
  IN  CASE action = "up" -> <<"Iniciado ">> \o DecStr(count) \o <<" ", suffix>>
        [] action = "down" -> <<"Interrompido ">> \o DecStr(count) \o <<" ", suffix>>
        [] action = "restart" -> <<"Reiniciado ">> \o DecStr(count) \o <<" ", suffix>>
        [] action = "pull" -> <<"Imagem atualizada para ">> \o DecStr(count) \o <<" ", suffix>>

recordTelemetryEvent(events, input) == Take(<<input>> \o events, telemetryLimit)

\* `container.Names?.[0] ?? container.Id` of the wrapped error
ContainerRef(container) == IF container.Names # <<>> THEN container.Names[1] ELSE container.Id

IdleCall ==
  [pc |-> "idle", id |-> <<>>, action |-> "up", services |-> <<>>, targets |-> <<>>,
   i |-> 0, issued |-> <<>>, emitted |-> 0, result |-> NoResult]


\* a facade that falls back to the whole stack when no service matches
BeginOutcome_ActOnAll(sock, status, cs, id, input) ==
  IF ~isAvailable(sock)
  THEN [pc |-> "done", targets |-> <<>>,
        result |-> Throw("Error", <<"Docker engine is not accessible from this environment">>)]
  ELSE LET listed == listContainers(sock, status, cs)
       IN  IF listed.kind = "throw" THEN [pc |-> "done", targets |-> <<>>, result |-> listed]
           ELSE LET stackContainers == SelectSeq(listed.value, LAMBDA c : resolveStackId(c) = id)
                IN  IF Len(stackContainers) = 0
                    THEN [pc |-> "done", targets |-> <<>>, result |-> Return(<<>>)]
                    ELSE [pc |-> "apply", targets |-> stackContainers, result |-> NoResult]

\* performContainerAction up to its first engine mutation: the availability
\* check, the listing and the resolution of the target containers
BeginOutcome(sock, status, cs, id, input) ==
  IF ~isAvailable(sock)
  THEN [pc |-> "done", targets |-> <<>>,
        result |-> Throw("Error", <<"Docker engine is not accessible from this environment">>)]
  ELSE LET listed == listContainers(sock, status, cs)
       IN  IF listed.kind = "throw" THEN [pc |-> "done", targets |-> <<>>, result |-> listed]
           ELSE LET stackContainers == SelectSeq(listed.value, LAMBDA c : resolveStackId(c) = id)
                    targetContainers == filterContainersByService(stackContainers, input.services)
                IN  IF Len(stackContainers) = 0
                    THEN [pc |-> "done", targets |-> <<>>, result |-> Return(<<>>)]
                    ELSE IF Len(targetContainers) = 0
                    THEN [pc |-> "done", targets |-> <<>>, result |-> Return(<<>>)]
                    ELSE [pc |-> "apply", targets |-> targetContainers, result |-> NoResult]

\* a loop that goes on to the next container when a request fails
ApplyOutcome_ContinueAfterFailure(k, sock, status) ==
  LET req == applyContainerAction(k.targets[k.i], k.action)
      answer == request(sock, status, <<>>)
  IN  [k EXCEPT !.pc = IF k.i = Len(k.targets) THEN "relist" ELSE "apply",
                !.i = k.i + 1,
                !.issued = Append(k.issued, [op |-> req.op, arg |-> req.arg,
                                             tag |-> req.tag,
                                             status |-> IF sock = "up" THEN status ELSE 0,
                                             ok |-> answer.kind = "value"])]

\* one turn of the loop over targetContainers: the call record after the
\* engine has answered the request for targets[i] with `status`
ApplyOutcome(k, sock, status) ==
  LET container == k.targets[k.i]
      req == applyContainerAction(container, k.action)
      answer == request(sock, status, <<>>)
      sent == Append(k.issued, [op |-> req.op, arg |-> req.arg,
                                tag |-> req.tag,
                                status |-> IF sock = "up" THEN status ELSE 0,
                                ok |-> answer.kind = "value"])
  IN  IF answer.kind = "throw"
      THEN [k EXCEPT !.pc = "done", !.issued = sent,
                     !.result = Throw("Error",
                        <<"Failed to execute ", k.action, " for container ">>
                          \o ContainerRef(container) \o <<": ">>
                          \o answer.error[1].message)]
      ELSE [k EXCEPT !.pc = IF k.i = Len(k.targets) THEN "relist" ELSE "apply",
                     !.i = k.i + 1, !.issued = sent]

FindStack(stacks, id) ==
  IF \E i \in DOMAIN stacks : stacks[i].id = id
  THEN << stacks[CHOOSE i \in DOMAIN stacks :
                   stacks[i].id = id /\ \A j \in 1..(i - 1) : stacks[j].id # id] >>
  ELSE <<>>

\* a facade that returns the stack without recording the action
StackOutcome_NoTelemetry(k, found) ==
  IF found = <<>> THEN [result |-> Return(<<>>), events |-> <<>>]
  ELSE [result |-> Return(<<[found[1] EXCEPT !.lastAction =
                               describeContainerAction(k.action, Len(k.targets))]>>),
        events |-> <<>>]

\* a facade that records the action although the stack is gone
StackOutcome_RecordsWhenGone(k, found) ==
  [result |-> IF found = <<>> THEN Return(<<>>)
              ELSE Return(<<[found[1] EXCEPT !.lastAction =
                               describeContainerAction(k.action, Len(k.targets))]>>),
   events |-> << [serverId |-> k.id,
                  metric |-> <<"container.", k.action>>,
                  value |-> Len(k.targets),
                  unit |-> <<"containers">>,
                  status |-> IF k.action = "down" THEN "warning" ELSE "ok",
                  message |-> describeContainerAction(k.action, Len(k.targets))] >>]

\* the value returned and the telemetry event recorded (a sequence of one
\* or none) once the stack is looked up in the fresh listing
StackOutcome(k, found) ==
  IF found = <<>> THEN [result |-> Return(<<>>), events |-> <<>>]
  ELSE LET affectedCount == Len(k.targets)
           lastAction == describeContainerAction(k.action, affectedCount)
       IN  [result |-> Return(<<[found[1] EXCEPT !.lastAction = lastAction]>>),
            events |-> << [serverId |-> found[1].id,
                           metric |-> <<"container.", k.action>>,
                           value |-> affectedCount,
                           unit |-> <<"containers">>,
                           status |-> IF k.action = "down" THEN "warning" ELSE "ok",
                           message |-> found[1].name \o <<": ">> \o lastAction] >>]

AfterRelist(k, updatedStacks) ==
  IF updatedStacks.kind = "throw" THEN [result |-> updatedStacks, events |-> <<>>]
  ELSE StackOutcome(k, FindStack(updatedStacks.value, k.id))

\* the rest of performContainerAction after the loop: what it returns or
\* throws and the telemetry event it records
RelistOutcome(k, sock, status, cs) == AfterRelist(k, loadDockerStacks(sock, status, cs))

(***************************************************************************)
(* The routes of server/routes.ts: the HTTP status a facade outcome is     *)
(* answered with                                                           *)
(***************************************************************************)
listRouteStatus(outcome) ==
  IF outcome.kind = "value" THEN 200
  ELSE IF outcome.error[1].name = "DockerUnavailableError" THEN 503
  ELSE 500

actionRouteStatus(outcome) ==
  IF outcome.kind = "value" THEN (IF outcome.value = <<>> THEN 404 ELSE 200)
  ELSE IF outcome.error[1].name = "ZodError" THEN 400
  ELSE IF outcome.error[1].name = "DockerUnavailableError" THEN 503
  ELSE 500

(***************************************************************************)
(* Steps                                                                   *)
(***************************************************************************)
\* the requests explored: the compose project as a whole (no service list,
\* or an empty one) under every action, a service named in another case
\* together with a name no container has, that name alone, the container
\* outside any project by its name in another case, and a stack id nothing
\* has
Requests ==
  {[id |-> S_papem_core, action |-> "up", services |-> <<>>],
   [id |-> S_papem_core, action |-> "down", services |-> <<>>],
   [id |-> S_papem_core, action |-> "pull", services |-> << <<>> >>],
   [id |-> S_papem_core, action |-> "restart", services |-> << <<S_API, S_ghost>> >>],
   [id |-> S_papem_core, action |-> "down", services |-> << <<S_ghost>> >>],
   [id |-> S_db, action |-> "up", services |-> << <<S_Db>> >>],
   [id |-> S_ghost, action |-> "restart", services |-> <<>>]}

\* the states somebody else puts a container in
ExternalStates == {"running", "restarting", "exited"}

InFlight(k) == k.pc \in {"apply", "relist"}

\* callers are interchangeable: a new call takes the first caller that has
\* no call in flight
FreeCaller(c) ==
  \/ c = "c1" /\ ~InFlight(call["c1"])
  \/ c = "c2" /\ InFlight(call["c1"]) /\ ~InFlight(call["c2"])

Init ==
  /\ socket = "up"
  /\ containers = SeedContainers
  /\ telemetryEvents = SeedTelemetry
  /\ call = [c \in Callers |-> IdleCall]
  /\ listResult = NoResult
  /\ listRead = <<>>
  /\ listedTwice = FALSE
  /\ nOps = 0
  /\ nExternal = 0
  /\ containerStacks = <<>>
  /\ clock = 0
  /\ DashIdle

\* the engine has changed: what earlier listings returned is history
ForgetLists == listResult' = NoResult /\ listRead' = <<>> /\ listedTwice' = FALSE

\* a listing that leaves a trace of itself in the telemetry
GetContainerStacks_Recording ==
  /\ \E status \in ListStatuses :
       /\ listResult' = getContainerStacks(socket, status, containers)
       /\ listRead' = IF socket = "up" /\ status < 400 THEN <<containers>> ELSE <<>>
  /\ listedTwice' = (listResult.kind = "value" /\ listResult'.kind = "value")
  /\ telemetryEvents' = recordTelemetryEvent(telemetryEvents, SeedTelemetry[1])
  /\ UNCHANGED <<socket, containers, call, nOps, nExternal, mem, dash>>

\* GET /api/container-stacks
GetContainerStacks ==
  /\ \E status \in ListStatuses :
       /\ listResult' = getContainerStacks(socket, status, containers)
       /\ listRead' = IF socket = "up" /\ status < 400 THEN <<containers>> ELSE <<>>
  /\ listedTwice' = (listResult.kind = "value" /\ listResult'.kind = "value")
  /\ UNCHANGED <<socket, containers, telemetryEvents, call, nOps, nExternal, mem, dash>>

\* POST /api/container-stacks/:id/actions, up to the first await that
\* reaches the engine
PerformBegin(c) ==
  /\ nOps < MaxOps
  /\ FreeCaller(c)
  /\ \E req \in Requests, status \in ListStatuses :
       LET input == [action |-> req.action, services |-> req.services]
           out == BeginOutcome(socket, status, containers, req.id, input)
       IN  call' = [call EXCEPT ![c] =
                      [pc |-> out.pc, id |-> req.id, action |-> req.action,
                       services |-> req.services, targets |-> out.targets,
                       i |-> IF out.pc = "apply" THEN 1 ELSE 0,
                       issued |-> <<>>, emitted |-> 0, result |-> out.result]]
  /\ nOps' = nOps + 1
  /\ UNCHANGED <<socket, containers, telemetryEvents, lists, nExternal, mem, dash>>

\* a loop that looks up the containers of the stack again before every
\* request
PerformApply_FreshTargets(c) ==
  /\ call[c].pc = "apply"
  /\ \E fresh \in {filterContainersByService(
                      SelectSeq(containers, LAMBDA x : resolveStackId(x) = call[c].id),
                      call[c].services)} :
       /\ call[c].i <= Len(fresh)
       /\ \E k \in {[call[c] EXCEPT !.targets = fresh]} :
            \E status \in EngineAnswers(containers, applyContainerAction(k.targets[k.i], k.action)) :
              \E after \in {ApplyOutcome(k, socket, status)} :
                /\ call' = [call EXCEPT ![c] = after]
                /\ containers' = IF socket = "up" /\ after.pc # "done"
                                  THEN EngineApply(containers,
                                         applyContainerAction(k.targets[k.i], k.action), status)
                                  ELSE containers
  /\ ForgetLists
  /\ UNCHANGED <<socket, telemetryEvents, nOps, nExternal, mem, dash>>

\* the engine answers the request for the next target container
PerformApply(c) ==
  /\ call[c].pc = "apply"
  /\ LET k == call[c]
         req == applyContainerAction(k.targets[k.i], k.action)
     IN  \E status \in EngineAnswers(containers, req) :
           LET after == ApplyOutcome(k, socket, status)
               done == socket = "up" /\ after.pc # "done"
           IN  /\ call' = [call EXCEPT ![c] = after]
               /\ containers' = IF done THEN EngineApply(containers, req, status)
                                ELSE containers
               /\ IF done /\ status \in {200, 204} THEN ForgetLists ELSE UNCHANGED lists
  /\ UNCHANGED <<socket, telemetryEvents, nOps, nExternal, mem, dash>>

\* the engine answers the listing that follows the loop
PerformRelist(c) ==
  /\ call[c].pc = "relist"
  /\ \E status \in ListStatuses :
       \E out \in {RelistOutcome(call[c], socket, status, containers)} :
           /\ call' = [call EXCEPT ![c].pc = "done", ![c].result = out.result,
                                   ![c].emitted = Len(out.events)]
           /\ telemetryEvents' = IF out.events = <<>> THEN telemetryEvents
                                 ELSE recordTelemetryEvent(telemetryEvents, out.events[1])
  /\ UNCHANGED <<socket, containers, lists, nOps, nExternal, mem, dash>>

performContainerAction(c) == PerformBegin(c) \/ PerformApply(c) \/ PerformRelist(c)

\* somebody else changes a container of the engine
ExternalSetState ==
  /\ nExternal < MaxExternal
  /\ \E i \in DOMAIN containers, s \in ExternalStates :
       /\ containers[i].State # s
       /\ containers' = [containers EXCEPT ![i].State = s, ![i].Status = StatusOf(s)]
  /\ ForgetLists
  /\ nExternal' = nExternal + 1
  /\ UNCHANGED <<socket, telemetryEvents, call, nOps, mem, dash>>

ExternalRemove ==
  /\ nExternal < MaxExternal
  /\ \E i \in DOMAIN containers :
       containers' = SubSeq(containers, 1, i - 1) \o SubSeq(containers, i + 1, Len(containers))
  /\ ForgetLists
  /\ nExternal' = nExternal + 1
  /\ UNCHANGED <<socket, telemetryEvents, call, nOps, mem, dash>>

ExternalSocket ==
  /\ nExternal < MaxExternal
  /\ \E s \in {"up", "absent"} : s # socket /\ socket' = s
  /\ ForgetLists
  /\ nExternal' = nExternal + 1
  /\ UNCHANGED <<containers, telemetryEvents, call, nOps, mem, dash>>

Next ==
  \/ GetContainerStacks
  \/ \E c \in {"c1"} : performContainerAction(c)
  \/ ExternalSetState
  \/ ExternalRemove
  \/ ExternalSocket

Spec == Init /\ [][Next]_vars

(***************************************************************************)
(* performContainerAction awaits recordTelemetryEvent outside any try      *)
(* block (lines 464-471).  The recorder of this class builds the event in  *)
(* memory: it rejects only if randomUUID or an allocation throws.  The     *)
(* specification below adds that outcome to the steps of Spec.             *)
(***************************************************************************)
\* the stack is in the fresh listing and the awaited recorder rejects: the
\* rejection leaves performContainerAction through the await
RecordTelemetryRejects(c) ==
  /\ call[c].pc = "relist"
  /\ \E out \in {RelistOutcome(call[c], socket, 200, containers)} :
       /\ out.events # <<>>
       /\ call' = [call EXCEPT ![c].pc = "done",
                               ![c].result = Throw("Error", <<"recordTelemetryEvent">>),
                               ![c].emitted = 0]
  /\ UNCHANGED <<socket, containers, telemetryEvents, lists, nOps, nExternal, mem, dash>>

EmitFaultNext ==
  \/ Next
  \/ \E c \in {"c1"} : RecordTelemetryRejects(c)

SpecEmitFault == Init /\ [][EmitFaultNext]_vars

(***************************************************************************)
(* Two requests at once.  Every await of performContainerAction hands the  *)
(* thread to whatever else is pending, and the method takes no lock: a     *)
(* second POST for the same stack is begun while the first is in flight.   *)
(* The specification below explores up and down of the whole project by    *)
(* two callers, with nobody else changing the engine.                      *)
(***************************************************************************)
MaxConcOps == 2

ConcRequests ==
  {[id |-> S_papem_core, action |-> "up", services |-> <<>>],
   [id |-> S_papem_core, action |-> "down", services |-> <<>>]}

\* a facade that turns a request away while another is in flight
ConcBegin_Exclusive(c) ==
  /\ nOps < MaxConcOps
  /\ \A d \in Callers : ~InFlight(call[d])
  /\ \E req \in ConcRequests, status \in ListStatuses :
       \E out \in {BeginOutcome(socket, status, containers, req.id,
                                [action |-> req.action, services |-> req.services])} :
         call' = [call EXCEPT ![c] =
                    [pc |-> out.pc, id |-> req.id, action |-> req.action,
                     services |-> req.services, targets |-> out.targets,
                     i |-> IF out.pc = "apply" THEN 1 ELSE 0,
                     issued |-> <<>>, emitted |-> 0, result |-> out.result]]
  /\ nOps' = nOps + 1
  /\ UNCHANGED <<socket, containers, telemetryEvents, lists, nExternal, mem, dash>>

\* POST /api/container-stacks/:id/actions up to its first await, whatever
\* the other caller is doing
ConcBegin(c) ==
  /\ nOps < MaxConcOps
  /\ FreeCaller(c)
  /\ \E req \in ConcRequests, status \in ListStatuses :
       \E out \in {BeginOutcome(socket, status, containers, req.id,
                                [action |-> req.action, services |-> req.services])} :
         call' = [call EXCEPT ![c] =
                    [pc |-> out.pc, id |-> req.id, action |-> req.action,
                     services |-> req.services, targets |-> out.targets,
                     i |-> IF out.pc = "apply" THEN 1 ELSE 0,
                     issued |-> <<>>, emitted |-> 0, result |-> out.result]]
  /\ nOps' = nOps + 1
  /\ UNCHANGED <<socket, containers, telemetryEvents, lists, nExternal, mem, dash>>

ConcNext ==
  \E c \in Callers :
    \/ ConcBegin(c)
    \/ PerformApply(c)
    \/ PerformRelist(c)

SpecConc == Init /\ [][ConcNext]_vars

(***************************************************************************)
(* The engine's containers come and go while an action runs: somebody      *)
(* scales the service api of the project up by a replica (the engine lists *)
(* the newest container first), or removes a container.                    *)
(***************************************************************************)
NewReplica ==
  [Id |-> <<"d","4">>, Names |-> << <<"/">> \o S_papem_core \o <<"-">> \o S_api \o <<"-","2">> >>,
   Image |-> S_api \o <<":","1">>, State |-> "created", Status |-> <<"Created">>,
   Ports |-> <<>>,
   Labels |-> [NoLabels EXCEPT !.project = <<S_papem_core>>, !.service = <<S_api>>]]

ExternalAdd ==
  /\ nExternal < MaxExternal
  /\ ~HasContainer(containers, NewReplica.Id)
  /\ containers' = <<NewReplica>> \o containers
  /\ ForgetLists
  /\ nExternal' = nExternal + 1
  /\ UNCHANGED <<socket, telemetryEvents, call, nOps, mem, dash>>

ChurnNext ==
  \/ \E c \in {"c1"} : performContainerAction(c)
  \/ ExternalAdd
  \/ ExternalRemove

SpecChurn == Init /\ [][ChurnNext]_vars


(***************************************************************************)
(* Aggregation over arbitrary snapshots: the engine starts with any        *)
(* listing of up to MaxContainers containers, and the listing is read.     *)
(***************************************************************************)
\* a 13-character id, so that slice(0, 12) cuts it
IdOf(i) == <<DigitChars[i + 1]>> \o [j \in 1..12 |-> "f"]

\* the shapes of container explored: two services of a compose project, a
\* container of no project, one the engine lists without a name, one of no
\* project (no project label, or an empty one) whose name is the project's
\* name, and one of no project whose name differs from the project's name
\* in its separator only
Profiles == {"api", "proxy", "db", "unnamed", "namesake", "lookalike"}

S_papem_core_u == <<"p","a","p","e","m","_","c","o","r","e">>

Kinds ==
  {[profile |-> "api", state |-> st] : st \in {"running", "exited", "restarting", "dead"}}
    \cup {[profile |-> "proxy", state |-> st] : st \in {"running", "paused", "created"}}
    \cup {[profile |-> "db", state |-> st] : st \in {"exited", "unknown", "removing"}}
    \cup {[profile |-> "unnamed", state |-> st] : st \in {"running"}}
    \cup {[profile |-> "namesake", state |-> st] : st \in {"running", "restarting"}}
    \cup {[profile |-> "lookalike", state |-> st] : st \in {"running"}}

MkContainer(i, kind) ==
  LET n == <<DigitChars[i + 1]>>
      p == kind.profile
  IN  [Id |-> IdOf(i),
       Names |-> CASE p = "api" -> << <<"/">> \o S_api \o n >>
                   [] p = "proxy" -> << <<"/">> \o S_edge \o n >>
                   [] p = "db" -> << <<"/">> \o S_db \o n >>
                   [] p = "unnamed" -> <<>>
                   [] p = "namesake" -> << <<"/">> \o S_papem_core >>
                   [] p = "lookalike" -> << <<"/">> \o S_papem_core_u >>,
       Image |-> IF p \in {"api", "proxy"} THEN S_api \o <<":">> \o n ELSE S_db,
       State |-> kind.state,
       Status |-> IF kind.state = "running" THEN S_Up \o <<" ">> \o n ELSE <<>>,
       Ports |-> CASE p = "api" /\ kind.state = "running" ->
                        << [PrivatePort |-> 9090, PublicPort |-> 0, Type |-> S_tcp],
                           [PrivatePort |-> 80, PublicPort |-> 8080, Type |-> S_tcp] >>
                   [] p = "api" /\ kind.state = "restarting" ->
                        << [PrivatePort |-> 80, PublicPort |-> 8080, Type |-> S_tcp],
                           [PrivatePort |-> 80, PublicPort |-> 0, Type |-> S_tcp],
                           [PrivatePort |-> 80, PublicPort |-> 8080, Type |-> S_tcp] >>
                   [] p = "api" /\ kind.state = "exited" ->
                        << [PrivatePort |-> 80, PublicPort |-> 8080, Type |-> S_tcp] >>
                   [] p = "proxy" ->
                        << [PrivatePort |-> 443, PublicPort |-> 443, Type |-> S_tcp],
                           [PrivatePort |-> 53, PublicPort |-> 0, Type |-> S_udp] >>
                   [] OTHER -> <<>>,
       Labels |-> CASE p = "api" -> [NoLabels EXCEPT !.project = <<S_papem_core>>,
                                                     !.service = <<S_api>>]
                    [] p = "proxy" -> [NoLabels EXCEPT !.project = <<S_papem_core>>,
                                                       !.service = <<S_proxy>>]
                    [] p = "namesake" /\ kind.state = "restarting" ->
                         [NoLabels EXCEPT !.project = << <<>> >>]
                    [] OTHER -> NoLabels]

\* the engine gives every container a name of its own: the position is
\* part of the name, and the two names without it are taken once at most
Snapshots ==
  {cs \in UNION {[1..n -> Kinds] : n \in 0..MaxContainers} :
     /\ Cardinality({i \in DOMAIN cs : cs[i].profile = "namesake"}) <= 1
     /\ Cardinality({i \in DOMAIN cs : cs[i].profile = "lookalike"}) <= 1}

AggInit ==
  /\ socket = "up"
  /\ \E kinds \in Snapshots : containers = [i \in DOMAIN kinds |-> MkContainer(i, kinds[i])]
  /\ telemetryEvents = SeedTelemetry
  /\ call = [c \in Callers |-> IdleCall]
  /\ listResult = NoResult
  /\ listRead = <<>>
  /\ listedTwice = FALSE
  /\ nOps = 0
  /\ nExternal = 0
  /\ containerStacks = <<>>
  /\ clock = 0
  /\ DashIdle

AggNext == GetContainerStacks

SpecAgg == AggInit /\ [][AggNext]_vars

(***************************************************************************)
(* Aggregation of one compose project under any project label: the engine  *)
(* lists the containers of one project (replicas of the service api, the   *)
(* service proxy, in either order), with or without a container of no      *)
(* project after them, and the listing is read.                            *)
(***************************************************************************)
MaxLabelLen == 4

LabelChars == <<"a", "-", "_">>

ProjectLabels ==
  UNION {[1..n -> Range(LabelChars)] : n \in 1..MaxLabelLen} \cup {S_papem_core}

ApiRuns ==
  UNION {[1..n -> {[profile |-> "api", state |-> st] :
                     st \in {"running", "exited", "restarting"}}] : n \in 1..2}

ProxyRuns ==
  {<<>>} \cup {<<[profile |-> "proxy", state |-> st]>> : st \in {"running", "exited"}}

GroupShapes ==
  {a \o p \o d : a \in ApiRuns, p \in ProxyRuns,
                 d \in {<<>>, <<[profile |-> "db", state |-> "exited"]>>}}
    \cup {p \o a : a \in ApiRuns, p \in ProxyRuns}

\* the container a compose project of that name would have made
InProject(container, label) ==
  IF container.Labels.project = <<>> THEN container
  ELSE [container EXCEPT !.Labels.project = <<label>>]

GroupInit ==
  /\ socket = "up"
  /\ \E label \in ProjectLabels, kinds \in GroupShapes :
       containers = [i \in DOMAIN kinds |-> InProject(MkContainer(i, kinds[i]), label)]
  /\ telemetryEvents = SeedTelemetry
  /\ call = [c \in Callers |-> IdleCall]
  /\ listResult = NoResult
  /\ listRead = <<>>
  /\ listedTwice = FALSE
  /\ nOps = 0
  /\ nExternal = 0
  /\ containerStacks = <<>>
  /\ clock = 0
  /\ DashIdle

SpecGroup == GroupInit /\ [][AggNext]_vars


(***************************************************************************)
(* The revision of DatabaseStorage that keeps its stacks in memory (the     *)
(* second class of server/database-storage.ts): the stacks are seeded at    *)
(* construction and rewritten by the actions; the engine is never asked.    *)
(* Strings nothing looks inside are single tokens; times are minutes from   *)
(* construction.                                                            *)
(***************************************************************************)
MaxMemOps == 2

SeedStacks ==
  << [id |-> <<"stack-papem">>, name |-> <<"PAPEM Core">>, projectName |-> <<"papem-core">>,
      path |-> <<"/opt/papem/docker-compose.yml">>, status |-> "running", updatedAt |-> -5,
      lastAction |-> <<"Stack iniciado automaticamente">>, primaryServerId |-> <<"server-1">>,
      services |->
        << [name |-> <<"api">>, image |-> <<"papem/api:latest">>, replicas |-> 2,
            state |-> "running", ports |-> << <<"8080:8080">>, <<"8443:8443">> >>,
            lastEvent |-> <<"Deploy aplicado ha 10 minutos">>],
           [name |-> <<"worker">>, image |-> <<"papem/worker:latest">>, replicas |-> 1,
            state |-> "running", ports |-> <<>>,
            lastEvent |-> <<"Fila processada as 08:45">>],
           [name |-> <<"proxy">>, image |-> <<"nginx:1.25">>, replicas |-> 1,
            state |-> "running", ports |-> << <<"80:80">>, <<"443:443">> >>,
            lastEvent |-> <<"Reload executado as 08:40">>] >>],
     [id |-> <<"stack-analytics">>, name |-> <<"Analytics">>,
      projectName |-> <<"papem-analytics">>,
      path |-> <<"/srv/analytics/docker-compose.yml">>, status |-> "degraded",
      updatedAt |-> -15,
      lastAction |-> <<"Servico collector com falha">>, primaryServerId |-> <<"server-3">>,
      services |->
        << [name |-> <<"collector">>, image |-> <<"papem/collector:2.1">>, replicas |-> 3,
            state |-> "error", ports |-> << <<"9000:9000">> >>,
            lastEvent |-> <<"Reinicio falhou as 08:20">>],
           [name |-> <<"processor">>, image |-> <<"papem/processor:2.1">>, replicas |-> 2,
            state |-> "running", ports |-> <<>>,
            lastEvent |-> <<"Processando lote desde 08:15">>],
           [name |-> <<"ui">>, image |-> <<"papem/analytics-ui:1.8">>, replicas |-> 1,
            state |-> "running", ports |-> << <<"5173:80">> >>,
            lastEvent |-> <<"Ultimo deploy as 07:50">>] >>],
     [id |-> <<"stack-monitoring">>, name |-> <<"Monitoring">>,
      projectName |-> <<"papem-monitoring">>,
      path |-> <<"/opt/monitoring/docker-compose.yml">>, status |-> "stopped",
      updatedAt |-> -120,
      lastAction |-> <<"Stack pausado para manutencao">>, primaryServerId |-> <<"server-4">>,
      services |->
        << [name |-> <<"prometheus">>, image |-> <<"prom/prometheus:v2.53">>, replicas |-> 1,
            state |-> "stopped", ports |-> << <<"9090:9090">> >>,
            lastEvent |-> <<"Servico interrompido as 06:00">>],
           [name |-> <<"grafana">>, image |-> <<"grafana/grafana:10.2">>, replicas |-> 1,
            state |-> "stopped", ports |-> << <<"3000:3000">> >>,
            lastEvent |-> <<"Pausa agendada as 06:00">>] >>] >>

\* (a, b) => b.updatedAt.getTime() - a.updatedAt.getTime()
UpdatedLater(a, b) == a.updatedAt > b.updatedAt

getContainerStacksInMemory(stacks) == Return(StableSort(UpdatedLater, stacks))

\* the service after the action, when the action targets it
ServiceAfter(service, action, now) ==
  CASE action = "up" ->
         [service EXCEPT !.state = "running",
                         !.lastEvent = <<"Servico iniciado as ">> \o DecStr(now)]
    [] action = "down" ->
         [service EXCEPT !.state = "stopped",
                         !.lastEvent = <<"Servico interrompido as ">> \o DecStr(now)]
    [] action = "restart" ->
         [service EXCEPT !.state = "running",
                         !.lastEvent = <<"Servico reiniciado as ">> \o DecStr(now)]
    [] action = "pull" ->
         [service EXCEPT !.lastEvent = <<"Imagem atualizada as ">> \o DecStr(now)]

\* performContainerAction of the in-memory revision: the map after the
\* call, what the call returns, and the telemetry event it records (a
\* sequence of one or none)
performContainerActionInMemory(stacks, now, id, input) ==
  IF ~\E i \in DOMAIN stacks : stacks[i].id = id
  THEN [stacks |-> stacks, result |-> Return(<<>>), events |-> <<>>]
  ELSE
    LET at == CHOOSE i \in DOMAIN stacks : stacks[i].id = id
        stack == stacks[at]
        named == IF input.services = <<>> THEN <<>> ELSE input.services[1]
        targetNames == IF Len(named) > 0 THEN Range(named)
                       ELSE {stack.services[x].name : x \in DOMAIN stack.services}
        updatedServices ==
          [x \in DOMAIN stack.services |->
             IF stack.services[x].name \notin targetNames THEN stack.services[x]
             ELSE ServiceAfter(stack.services[x], input.action, now)]
        matchedServices ==
          Cardinality({x \in DOMAIN stack.services : stack.services[x].name \in targetNames})
        affectedCount == IF matchedServices # 0 THEN matchedServices
                         ELSE IF Len(named) # 0 THEN Len(named)
                         ELSE Len(stack.services)
        counted == <<"(">> \o DecStr(affectedCount) \o <<" servico(s))">>
        status == CASE input.action = "up" -> "running"
                    [] input.action = "down" -> "stopped"
                    [] input.action = "restart" -> "running"
                    [] input.action = "pull" ->
                         IF stack.status = "stopped" THEN "stopped" ELSE "running"
        lastAction == CASE input.action = "up" -> <<"Stack iniciado ">> \o counted
                        [] input.action = "down" -> <<"Stack interrompido ">> \o counted
                        [] input.action = "restart" -> <<"Stack reiniciado ">> \o counted
                        [] input.action = "pull" -> <<"Imagens atualizadas ">> \o counted
        updatedStack == [stack EXCEPT !.status = status, !.services = updatedServices,
                                      !.updatedAt = now, !.lastAction = lastAction]
    IN  [stacks |-> [stacks EXCEPT ![at] = updatedStack],
         result |-> Return(<<updatedStack>>),
         events |-> << [serverId |-> stack.primaryServerId,
                        metric |-> <<"container.", input.action>>,
                        value |-> affectedCount,
                        unit |-> <<"servicos">>,
                        status |-> IF input.action = "down" THEN "warning" ELSE "ok",
                        message |-> stack.name \o <<": ">> \o lastAction] >>]

\* the requests explored: a stack as a whole, one of its services, a service
\* it does not have, a stack that has an error or is stopped, and an id
\* nothing has
MemRequests ==
  {[id |-> <<"stack-papem">>, action |-> "down", services |-> <<>>],
   [id |-> <<"stack-papem">>, action |-> "down", services |-> << << <<"api">> >> >>],
   [id |-> <<"stack-papem">>, action |-> "restart", services |-> << <<>> >>],
   [id |-> <<"stack-analytics">>, action |-> "pull", services |-> <<>>],
   [id |-> <<"stack-analytics">>, action |-> "up", services |-> <<>>],
   [id |-> <<"stack-monitoring">>, action |-> "up", services |-> << << <<"ghost">> >> >>],
   [id |-> <<"stack-monitoring">>, action |-> "up", services |-> << << <<"grafana">> >> >>],
   [id |-> <<"stack-ghost">>, action |-> "up", services |-> <<>>]}

MemInit ==
  /\ socket = "up"
  /\ containers = SeedContainers
  /\ telemetryEvents = SeedTelemetry
  /\ call = [c \in Callers |-> IdleCall]
  /\ listResult = NoResult
  /\ listRead = <<>>
  /\ listedTwice = FALSE
  /\ nOps = 0
  /\ nExternal = 0
  /\ containerStacks = SeedStacks
  /\ clock = 0
  /\ DashIdle

\* GET /api/container-stacks
ListInMemory ==
  /\ listResult' = getContainerStacksInMemory(containerStacks)
  /\ listRead' = <<>>
  /\ listedTwice' = (listResult.kind = "value")
  /\ UNCHANGED <<socket, containers, telemetryEvents, call, nOps, nExternal, mem, dash>>

\* POST /api/container-stacks/:id/actions
PerformInMemory ==
  /\ nOps < MaxMemOps
  /\ \E req \in MemRequests :
       LET input == [action |-> req.action, services |-> req.services]
           out == performContainerActionInMemory(containerStacks, clock + 1, req.id, input)
       IN  /\ containerStacks' = out.stacks
           /\ call' = [call EXCEPT !["c1"] =
                         [IdleCall EXCEPT !.pc = "done", !.id = req.id, !.action = req.action,
                                          !.services = req.services,
                                          !.emitted = Len(out.events),
                                          !.result = out.result]]
           /\ telemetryEvents' = IF out.events = <<>> THEN telemetryEvents
                                 ELSE recordTelemetryEvent(telemetryEvents, out.events[1])
  /\ clock' = clock + 1
  /\ nOps' = nOps + 1
  /\ ForgetLists
  /\ UNCHANGED <<socket, containers, nExternal, dash>>

MemNext == ListInMemory \/ PerformInMemory

SpecMem == MemInit /\ [][MemNext]_vars


(***************************************************************************)
(* The monitoring tables: servers, their metrics and their alerts.  A row  *)
(* is a record; a nullable column holds <<>> or <<value>>; a generated id  *)
(* is the row's insertion number.  Usage figures are in tenths of a        *)
(* percent, the precision toFixed(1) stores.                               *)
(***************************************************************************)
Reverse(s) == [i \in DOMAIN s |-> s[Len(s) + 1 - i]]

getServers(rows) == rows

\* a sanitiser that strips the password only
sanitizeServer_KeepsKey(server) ==
  [f \in DOMAIN server \ {"sshPassword"} |-> server[f]]

\* const { sshPassword, sshPrivateKey, ...publicServer } = server
sanitizeServer(server) ==
  [f \in DOMAIN server \ {"sshPassword", "sshPrivateKey"} |-> server[f]]

getPublicServers(rows) == [i \in DOMAIN rows |-> sanitizeServer(getServers(rows)[i])]

\* `server || undefined`: a sequence of one row or of none
getServer(rows, id) == Take(SelectSeq(rows, LAMBDA r : r.id = id), 1)

getPublicServer(rows, id) ==
  LET server == getServer(rows, id)
  IN  IF server # <<>> THEN <<sanitizeServer(server[1])>> ELSE <<>>

\* `text || null`: an absent or empty text is stored as null
OrNull(text) == IF text = <<"">> THEN <<>> ELSE text

\* the row the insert returns, with the defaults the facade fills in
NewServer(rows, insertServer) ==
  [id |-> Len(rows) + 1,
   name |-> insertServer.name,
   isActive |-> IF insertServer.isActive = <<>> THEN TRUE ELSE insertServer.isActive[1],
   sshUsername |-> OrNull(insertServer.sshUsername),
   sshPassword |-> OrNull(insertServer.sshPassword),
   sshPrivateKey |-> OrNull(insertServer.sshPrivateKey)]

createServer(rows, insertServer) == Append(rows, NewServer(rows, insertServer))

\* update ... set(updateData) where id
updateServer(rows, id, updateData) ==
  [i \in DOMAIN rows |->
     IF rows[i].id = id
     THEN [f \in DOMAIN rows[i] |->
             IF f \in DOMAIN updateData THEN updateData[f] ELSE rows[i][f]]
     ELSE rows[i]]

\* the newest reading of a server: the last inserted one
getLatestServerMetrics(metrics, serverId) ==
  Take(Reverse(SelectSeq(metrics, LAMBDA m : m.serverId = serverId)), 1)

createMetrics(metrics, insertMetrics) == Append(metrics, insertMetrics)

\* newest first
getServerAlerts(al, serverId) == Reverse(SelectSeq(al, LAMBDA a : a.serverId = serverId))

getActiveAlerts(al) == Reverse(SelectSeq(al, LAMBDA a : ~a.isResolved))

createAlert(al, insertAlert) ==
  Append(al, [id |-> Len(al) + 1,
              serverId |-> insertAlert.serverId,
              alertType |-> insertAlert.alertType,
              severity |-> insertAlert.severity,
              threshold |-> insertAlert.threshold,
              isResolved |-> insertAlert.isResolved])

resolveAlert(al, id) ==
  [i \in DOMAIN al |-> IF al[i].id = id THEN [al[i] EXCEPT !.isResolved = TRUE] ELSE al[i]]

\* { ...server, metrics, alerts }
WithMetrics(server, metrics, al) ==
  [f \in DOMAIN server \cup {"metrics", "alerts"} |->
     IF f = "metrics" THEN getLatestServerMetrics(metrics, server.id)
     ELSE IF f = "alerts" THEN getServerAlerts(al, server.id)
     ELSE server[f]]

getPublicServersWithLatestMetrics(rows, metrics, al) ==
  LET allServers == getPublicServers(rows)
  IN  [i \in DOMAIN allServers |-> WithMetrics(allServers[i], metrics, al)]

\* res.status(status).json(data): data is the list of records in the body
\* (none for a `{ message }` body)
Response(status, data) == [type |-> "response", status |-> status, data |-> data]

\* client.send(JSON.stringify({ type, data }))
Message(type, data) == [type |-> type, status |-> 0, data |-> data]

(***************************************************************************)
(* The metrics timer.  setInterval fires the callback every 30 s whether   *)
(* or not the previous firing has returned; each `await` of a firing is a  *)
(* point where another firing or a request handler runs.                   *)
(***************************************************************************)
\* timer firings and writing requests (PATCH, POST, PUT) together
MaxDashOps == 2

Timers == {"t1", "t2"}

IdleTick == [pc |-> "idle", servers |-> <<>>, i |-> 0, due |-> <<>>]

\* the base reading of a server that has none: "50", "60", "40"
DefaultMetrics == [cpuUsage |-> 500, memoryUsage |-> 600, diskUsage |-> 400]

\* (Math.random() - 0.5) * 10, * 5 and * 2: a draw at the low end of the
\* three ranges, one at the high end, and one with only the CPU high
Variations ==
  { [cpuUsage |-> -50, memoryUsage |-> -25, diskUsage |-> -10],
    [cpuUsage |-> 49, memoryUsage |-> 24, diskUsage |-> 9],
    [cpuUsage |-> 49, memoryUsage |-> -25, diskUsage |-> -10] }

\* Math.max(0, Math.min(100, x))
Clamp(x) == IF x < 0 THEN 0 ELSE IF x > 1000 THEN 1000 ELSE x

\* the alert of each type and the usage above which it is raised
Thresholds ==
  << [alertType |-> "cpu", column |-> "cpuUsage", threshold |-> 800, severity |-> "critical"],
     [alertType |-> "memory", column |-> "memoryUsage", threshold |-> 900,
      severity |-> "critical"],
     [alertType |-> "disk", column |-> "diskUsage", threshold |-> 850, severity |-> "warning"] >>

\* existingAlerts.some(alert => alert.alertType === type && !alert.isResolved)
hasUnresolvedAlert(existingAlerts, alertType) ==
  \E i \in DOMAIN existingAlerts :
    existingAlerts[i].alertType = alertType /\ ~existingAlerts[i].isResolved

\* the alerts the callback goes on to create for a reading, in order
DueAlerts(existingAlerts, reading) ==
  SelectSeq(Thresholds, LAMBDA t : /\ reading[t.column] > t.threshold
                                   /\ ~hasUnresolvedAlert(existingAlerts, t.alertType))

\* the rows of the rest of the loop that are active (`continue` otherwise)
RECURSIVE NextActive(_, _)
NextActive(rows, i) ==
  IF i > Len(rows) THEN i
  ELSE IF rows[i].isActive THEN i
  ELSE NextActive(rows, i + 1)

\* the callback moves on to the server at or after i, or to the broadcast
MoveTo(k, i) ==
  LET n == NextActive(k.servers, i)
  IN  IF n > Len(k.servers) THEN [k EXCEPT !.pc = "broadcast", !.i = n, !.due = <<>>]
      ELSE [k EXCEPT !.pc = "measure", !.i = n, !.due = <<>>]

\* the timer fires: const servers = await storage.getServers()
TickBegin(t) ==
  /\ ticks[t].pc = "idle"
  /\ nOps < MaxDashOps
  /\ ticks' = [ticks EXCEPT ![t] = MoveTo([IdleTick EXCEPT !.servers = getServers(servers)], 1)]
  /\ nOps' = nOps + 1
  /\ UNCHANGED <<socket, containers, telemetryEvents, call, lists, nExternal, mem,
                 servers, alerts, serverMetrics, wire>>

\* a reading is drawn and stored, and the server's alerts are read
TickMeasure(t) ==
  /\ ticks[t].pc = "measure"
  /\ \E variation \in Variations :
       LET k == ticks[t]
           server == k.servers[k.i]
           currentMetrics == getLatestServerMetrics(serverMetrics, server.id)
           baseMetrics == IF currentMetrics # <<>> THEN currentMetrics[1] ELSE DefaultMetrics
           reading == [serverId |-> server.id,
                       cpuUsage |-> Clamp(baseMetrics.cpuUsage + variation.cpuUsage),
                       memoryUsage |-> Clamp(baseMetrics.memoryUsage + variation.memoryUsage),
                       diskUsage |-> Clamp(baseMetrics.diskUsage + variation.diskUsage)]
           due == DueAlerts(getServerAlerts(alerts, server.id), reading)
       IN  /\ serverMetrics' = createMetrics(serverMetrics, reading)
           /\ ticks' = [ticks EXCEPT ![t] =
                          IF due = <<>> THEN MoveTo(k, k.i + 1)
                          ELSE [k EXCEPT !.pc = "alert", !.due = due]]
  /\ UNCHANGED <<socket, containers, telemetryEvents, call, lists, nOps, nExternal, mem,
                 servers, alerts, wire>>

\* await storage.createAlert({...}) of the next alert that is due
TickAlert(t) ==
  /\ ticks[t].pc = "alert"
  /\ LET k == ticks[t]
         d == Head(k.due)
     IN  /\ alerts' = createAlert(alerts, [serverId |-> k.servers[k.i].id,
                                           alertType |-> d.alertType,
                                           severity |-> d.severity,
                                           threshold |-> d.threshold,
                                           isResolved |-> FALSE])
         /\ ticks' = [ticks EXCEPT ![t] =
                        IF Tail(k.due) = <<>> THEN MoveTo(k, k.i + 1)
                        ELSE [k EXCEPT !.due = Tail(k.due)]]
  /\ UNCHANGED <<socket, containers, telemetryEvents, call, lists, nOps, nExternal, mem,
                 servers, serverMetrics, wire>>

\* what an open client is sent at the end of the callback
TickBroadcast(t) ==
  /\ ticks[t].pc = "broadcast"
  /\ wire' = << Message("servers_update",
                        getPublicServersWithLatestMetrics(servers, serverMetrics, alerts)),
                Message("alerts_update", getActiveAlerts(alerts)) >>
  /\ ticks' = [ticks EXCEPT ![t] = IdleTick]
  /\ UNCHANGED <<socket, containers, telemetryEvents, call, lists, nOps, nExternal, mem,
                 servers, alerts, serverMetrics>>

\* PATCH /api/alerts/:id/resolve
ResolveAlert ==
  /\ nOps < MaxDashOps
  /\ \E id \in 1 .. Len(alerts) + 1 :
       /\ alerts' = resolveAlert(alerts, id)
       /\ wire' = IF id \in DOMAIN alerts
                  THEN << Response(200, <<alerts'[id]>>) >>
                  ELSE << Response(404, <<>>) >>
  /\ nOps' = nOps + 1
  /\ UNCHANGED <<socket, containers, telemetryEvents, call, lists, nExternal, mem,
                 servers, serverMetrics, ticks>>

\* a server near its thresholds, one that is switched off, and their readings
SeedServers ==
  << [id |-> 1, name |-> "web-01", isActive |-> TRUE, sshUsername |-> <<"deploy">>,
      sshPassword |-> <<"s3cret">>, sshPrivateKey |-> <<"KEY-1">>],
     [id |-> 2, name |-> "db-01", isActive |-> FALSE, sshUsername |-> <<>>,
      sshPassword |-> <<>>, sshPrivateKey |-> <<>>] >>

SeedMetrics ==
  << [serverId |-> 1, cpuUsage |-> 780, memoryUsage |-> 890, diskUsage |-> 845] >>

AlertsInit ==
  /\ socket = "up"
  /\ containers = SeedContainers
  /\ telemetryEvents = SeedTelemetry
  /\ call = [c \in Callers |-> IdleCall]
  /\ listResult = NoResult
  /\ listRead = <<>>
  /\ listedTwice = FALSE
  /\ nOps = 0
  /\ nExternal = 0
  /\ containerStacks = <<>>
  /\ clock = 0
  /\ servers = SeedServers
  /\ serverMetrics = SeedMetrics
  /\ alerts = <<>>
  /\ ticks = [t \in Timers |-> IdleTick]
  /\ wire = <<>>

AlertsNext ==
  \/ \E t \in Timers : TickBegin(t) \/ TickMeasure(t) \/ TickAlert(t) \/ TickBroadcast(t)
  \/ ResolveAlert

SpecAlerts == AlertsInit /\ [][AlertsNext]_vars


(***************************************************************************)
(* The server routes and the servers subscription of the WebSocket         *)
(***************************************************************************)
\* bodies insertServerSchema accepts; <<>> is a body it rejects
ServerBodies ==
  [name : {"app-01"}, isActive : {<<>>, <<FALSE>>}, sshUsername : {<<"root">>},
   sshPassword : {<<"">>, <<"hunter2">>}, sshPrivateKey : {<<"KEY-2">>}]

\* bodies insertServerSchema.partial() accepts
ServerUpdates ==
  { [name |-> "web-02", isActive |-> FALSE],
    [sshPassword |-> <<"changed">>, sshPrivateKey |-> <<"KEY-3">>] }

\* GET /api/servers
GetServersRoute ==
  /\ wire' = << Response(200, getPublicServersWithLatestMetrics(servers, serverMetrics,
                                                                alerts)) >>
  /\ UNCHANGED <<socket, containers, telemetryEvents, call, lists, nOps, nExternal, mem,
                 servers, serverMetrics, alerts, ticks>>

\* GET /api/servers/:id
GetServerRoute ==
  /\ \E id \in 1 .. Len(servers) + 1 :
       LET server == getPublicServer(servers, id)
       IN  wire' = IF server = <<>> THEN << Response(404, <<>>) >>
                   ELSE << Response(200, <<WithMetrics(server[1], serverMetrics, alerts)>>) >>
  /\ UNCHANGED <<socket, containers, telemetryEvents, call, lists, nOps, nExternal, mem,
                 servers, serverMetrics, alerts, ticks>>

\* POST /api/servers
PostServerRoute ==
  /\ nOps < MaxDashOps
  /\ \E body \in ServerBodies \cup {<<>>} :
       IF body = <<>>
       THEN /\ wire' = << Response(400, <<>>) >>
            /\ UNCHANGED servers
       ELSE /\ servers' = createServer(servers, body)
            /\ wire' = << Response(201, getPublicServer(servers',
                                                        NewServer(servers, body).id)) >>
  /\ nOps' = nOps + 1
  /\ UNCHANGED <<socket, containers, telemetryEvents, call, lists, nExternal, mem,
                 serverMetrics, alerts, ticks>>

\* PUT /api/servers/:id
PutServerRoute ==
  /\ nOps < MaxDashOps
  /\ \E id \in 1 .. Len(servers) + 1, body \in ServerUpdates :
       /\ servers' = updateServer(servers, id, body)
       /\ wire' = IF getServer(servers', id) = <<>> THEN << Response(404, <<>>) >>
                  ELSE << Response(200, getPublicServer(servers', id)) >>
  /\ nOps' = nOps + 1
  /\ UNCHANGED <<socket, containers, telemetryEvents, call, lists, nExternal, mem,
                 serverMetrics, alerts, ticks>>

\* the WebSocket message { type: 'subscribe_servers' }
SubscribeServers ==
  /\ wire' = << Message("servers_update",
                        getPublicServersWithLatestMetrics(servers, serverMetrics, alerts)) >>
  /\ UNCHANGED <<socket, containers, telemetryEvents, call, lists, nOps, nExternal, mem,
                 servers, serverMetrics, alerts, ticks>>

ServersNext ==
  \/ GetServersRoute
  \/ GetServerRoute
  \/ PostServerRoute
  \/ PutServerRoute
  \/ SubscribeServers
  \/ \E t \in {"t1"} : TickBegin(t) \/ TickMeasure(t) \/ TickAlert(t) \/ TickBroadcast(t)

SpecServers == AlertsInit /\ [][ServersNext]_vars


(***************************************************************************)
(* The telemetry log and its routes.  An event built by the facade carries *)
(* the time it was recorded at, in minutes since construction; the events  *)
(* seeded at construction are older than it.                               *)
(***************************************************************************)
\* recordTelemetryEvent calls
MaxTelemetryOps == 2

\* Array.prototype.slice(0, end)
SliceTo(s, end) ==
  IF end < 0 THEN Take(s, IF Len(s) + end < 0 THEN 0 ELSE Len(s) + end) ELSE Take(s, end)

\* a getter that returns the whole log when no limit is given
getTelemetryEvents_NoDefault(events, limit) ==
  IF limit = <<>> THEN events ELSE SliceTo(events, limit[1])

\* limit is <<>> (undefined) or <<n>>
getTelemetryEvents(events, limit) ==
  LET effectiveLimit == IF limit = <<>> THEN 50 ELSE limit[1]
  IN  SliceTo(events, effectiveLimit)

\* the event recordTelemetryEvent builds from its input at the time `now`
TelemetryEventOf(input, now) ==
  [serverId |-> input.serverId,
   metric |-> input.metric,
   value |-> input.value,
   unit |-> input.unit,
   status |-> IF input.status = <<>> THEN "ok" ELSE input.status[1],
   message |-> IF input.message = <<>> THEN input.metric \o <<" registrado">>
               ELSE input.message[1],
   recordedAt |-> now]

RECURSIVE DigitsPrefix(_)
DigitsPrefix(s) ==
  IF s = <<>> \/ s[1] \notin Range(DigitChars) THEN <<>>
  ELSE <<s[1]>> \o DigitsPrefix(Tail(s))

RECURSIVE DecVal(_)
DecVal(digits) ==
  IF digits = <<>> THEN 0
  ELSE 10 * DecVal(SubSeq(digits, 1, Len(digits) - 1))
         + (IndexOf(digits[Len(digits)], DigitChars) - 1)

\* parseInt(text, 10): leading blanks, a sign, then the digits up to the first
\* other character; <<>> is NaN
parseInt(text) ==
  LET t == TrimStart(text)
      signed == t # <<>> /\ t[1] \in {"-", "+"}
      digits == DigitsPrefix(IF signed THEN Tail(t) ELSE t)
  IN  IF digits = <<>> THEN <<>>
      ELSE IF signed /\ t[1] = "-" THEN <<0 - DecVal(digits)>>
      ELSE <<DecVal(digits)>>

\* the limit the route hands on for a query (<<>>: no limit parameter)
RouteLimit(limitParam) ==
  LET parsedLimit == IF limitParam # <<>> /\ limitParam[1] # <<>> THEN parseInt(limitParam[1])
                     ELSE <<>>
  IN  IF parsedLimit # <<>> /\ parsedLimit[1] > 0 THEN parsedLimit ELSE <<>>

\* ?limit= values a client sends
LimitParams ==
  { <<>>, <<<<>>>>, <<<<"0">>>>, <<<<"3">>>>, <<<<"5", "0">>>>, <<<<"2", "0", "0">>>>,
    <<<<"2", "5", "0">>>>, <<<<"-", "1">>>>, <<<<"a", "l", "l">>>>, <<<<" ", "7", "x">>>> }

\* a payload recordTelemetryEventSchema accepts
PostedTelemetry ==
  { [serverId |-> <<"server-1">>, metric |-> <<"cpu.usage">>, value |-> 91,
     unit |-> <<"%">>, status |-> <<"critical">>, message |-> <<>>] }

\* what the container, service, backup and log-export actions record
ActionTelemetry ==
  { [serverId |-> <<"papem-core">>, metric |-> <<"container.", "up">>, value |-> 2,
     unit |-> <<"containers">>, status |-> <<"ok">>,
     message |-> <<<<"PAPEM Core: Iniciado 2 containers">>>>],
    [serverId |-> <<"server-2">>, metric |-> <<"backup.created">>, value |-> 1,
     unit |-> <<"backup">>, status |-> <<>>, message |-> <<>>] }

\* the query the request carried, ahead of the response
Request(limitParam) == [type |-> "request", status |-> 0, data |-> <<>>, limit |-> limitParam]

\* GET /api/telemetry/events
GetTelemetryRoute ==
  /\ \E limitParam \in LimitParams :
       wire' = << Request(limitParam),
                  Response(200, getTelemetryEvents(telemetryEvents, RouteLimit(limitParam))) >>
  /\ UNCHANGED <<socket, containers, telemetryEvents, call, lists, nOps, nExternal, mem,
                 servers, serverMetrics, alerts, ticks>>

\* POST /api/telemetry/events: the body is a payload, or <<>> for one the
\* schema rejects
PostTelemetryRoute ==
  /\ nOps < MaxTelemetryOps
  /\ \E body \in PostedTelemetry \cup {<<>>}, now \in {clock, clock + 1} :
       IF body = <<>>
       THEN /\ wire' = << Response(400, <<>>) >>
            /\ UNCHANGED <<telemetryEvents, clock>>
       ELSE /\ telemetryEvents' = recordTelemetryEvent(telemetryEvents,
                                                       TelemetryEventOf(body, now))
            /\ clock' = now
            /\ wire' = << Response(201, <<TelemetryEventOf(body, now)>>) >>
  /\ nOps' = nOps + 1
  /\ UNCHANGED <<socket, containers, call, lists, nExternal, containerStacks,
                 servers, serverMetrics, alerts, ticks>>

\* the recordTelemetryEvent call at the end of a container, service, backup
\* or log-export action
RecordByAction ==
  /\ nOps < MaxTelemetryOps
  /\ \E input \in ActionTelemetry, now \in {clock, clock + 1} :
       /\ telemetryEvents' = recordTelemetryEvent(telemetryEvents,
                                                  TelemetryEventOf(input, now))
       /\ clock' = now
  /\ nOps' = nOps + 1
  /\ UNCHANGED <<socket, containers, call, lists, nExternal, containerStacks, dash>>

\* the seeded events, 5, 12, 120, 180 and 360 minutes old at construction
SeedAges == <<5, 12, 120, 180, 360>>

SeedEvents ==
  [i \in DOMAIN SeedTelemetry |->
     TelemetryEventOf([serverId |-> SeedTelemetry[i].serverId,
                       metric |-> SeedTelemetry[i].metric,
                       value |-> SeedTelemetry[i].value,
                       unit |-> SeedTelemetry[i].unit,
                       status |-> <<SeedTelemetry[i].status>>,
                       message |-> <<SeedTelemetry[i].message>>], 0 - SeedAges[i])]

\* the log after n events were recorded, one a minute, since construction
LogAfter(n) ==
  [i \in 1 .. n |->
     TelemetryEventOf([serverId |-> <<"server-1">>, metric |-> <<"cpu.usage">>,
                       value |-> 70, unit |-> <<"%">>, status |-> <<>>,
                       message |-> <<>>], n + 1 - i)] \o SeedEvents

\* how many events were recorded before the first step
Recorded == {0, 55, 194, 195}

TelemetryInit ==
  /\ socket = "up"
  /\ containers = SeedContainers
  /\ \E n \in Recorded : /\ telemetryEvents = LogAfter(n)
                         /\ clock = n
  /\ call = [c \in Callers |-> IdleCall]
  /\ listResult = NoResult
  /\ listRead = <<>>
  /\ listedTwice = FALSE
  /\ nOps = 0
  /\ nExternal = 0
  /\ containerStacks = <<>>
  /\ DashIdle

TelemetryNext == GetTelemetryRoute \/ PostTelemetryRoute \/ RecordByAction

SpecTelemetry == TelemetryInit /\ [][TelemetryNext]_vars


(***************************************************************************)
(* Claims                                                                  *)
(***************************************************************************)
RECURSIVE SumReplicas(_)
SumReplicas(services) ==
  IF services = <<>> THEN 0 ELSE services[1].replicas + SumReplicas(Tail(services))

RECURSIVE SumStacks(_)
SumStacks(stacks) ==
  IF stacks = <<>> THEN 0 ELSE SumReplicas(stacks[1].services) + SumStacks(Tail(stacks))

\* a listing has been read and aggregated
Listed == listResult.kind = "value" /\ listRead # <<>>

\* the containers of the listing read that a stack id owns
MembersOf(stackId) == SelectSeq(listRead[1], LAMBDA c : resolveStackId(c) = stackId)

\* C1: every container of the listing the engine returned is counted in
\* exactly one derived stack (the stack ids are pairwise different, the
\* container's own stack holds its service with as many replicas as the
\* listing has containers of that service, and the replicas of all stacks add
\* up to the number of containers), and no two services of a stack have the
\* same name.
C1_EveryContainerInOneStack ==
  Listed =>
    LET cs == listRead[1]
        stacks == listResult.value
    IN  /\ \A a, b \in DOMAIN stacks : a # b => stacks[a].id # stacks[b].id
        /\ \A i \in DOMAIN cs :
             \E a \in DOMAIN stacks :
               /\ stacks[a].id = resolveStackId(cs[i])
               /\ \E x \in DOMAIN stacks[a].services :
                    /\ stacks[a].services[x].name = resolveServiceName(cs[i])
                    /\ stacks[a].services[x].replicas =
                         Cardinality({j \in DOMAIN cs :
                                        /\ resolveStackId(cs[j]) = resolveStackId(cs[i])
                                        /\ resolveServiceName(cs[j]) = resolveServiceName(cs[i])})
        /\ SumStacks(stacks) = Len(cs)
        /\ \A a \in DOMAIN stacks :
             \A x, y \in DOMAIN stacks[a].services :
               x # y => stacks[a].services[x].name # stacks[a].services[y].name

\* C1 witness: a listing of three containers, two of them replicas of one
\* service, has been aggregated into more than one stack
C1_Witness ==
  /\ Listed
  /\ Len(listRead[1]) = 3
  /\ Len(listResult.value) = 2
  /\ \E a \in DOMAIN listResult.value :
       \E x \in DOMAIN listResult.value[a].services :
         listResult.value[a].services[x].replicas = 2

\* the status the claim gives a stack, from the states of its containers
StatusOfContainers(cs) ==
  LET states == [i \in DOMAIN cs |-> mapContainerState(cs[i].State)]
  IN  IF \A i \in DOMAIN states : states[i] = "running" THEN
        (IF Len(states) = 0 THEN "stopped" ELSE "running")
      ELSE IF \A i \in DOMAIN states : states[i] = "stopped" THEN "stopped"
      ELSE "degraded"

\* C2: the status of every derived stack is decided by the states of its
\* member containers alone: running when all are running, stopped when all
\* are stopped (and for a stack of no container), degraded in every other
\* case.
C2_StatusFromMemberStates ==
  /\ aggregateStackStatus(<<>>) = "stopped"
  /\ Listed =>
       \A a \in DOMAIN listResult.value :
         listResult.value[a].status = StatusOfContainers(MembersOf(listResult.value[a].id))

\* C2 witness: a derived stack is degraded although each of its services is
\* uniform (one all running, one all stopped)
C2_Witness ==
  /\ Listed
  /\ \E a \in DOMAIN listResult.value :
       LET st == listResult.value[a]
       IN  /\ st.status = "degraded"
           /\ Len(st.services) = 2
           /\ st.services[1].state = "running"
           /\ st.services[2].state = "stopped"

\* the caller c starts a call in this step
Begins(c) == nOps' = nOps + 1 /\ FreeCaller(c)

\* the call of caller c ends in this step
Completes(c) == call'[c].pc = "done" /\ (Begins(c) \/ InFlight(call[c]))

\* the errors the engine's listing can fail with while the socket is there
ListingErrors == {listContainers("up", s, <<>>) : s \in {x \in ListStatuses : x >= 400}}

\* no container of the listing is of the stack, or none is of a named service
EmptyTargetSet(cs, id, services) ==
  LET members == {i \in DOMAIN cs : resolveStackId(cs[i]) = id}
      named == IF services = <<>> THEN <<>> ELSE services[1]
      wanted == IF named = <<>> THEN members
                ELSE {i \in members :
                        \E k \in DOMAIN named :
                          StrLower(named[k]) = StrLower(resolveServiceName(cs[i]))}
  IN  wanted = {}

\* C3: a call whose initial listing succeeds and holds no container of the
\* stack, or none of a named service, ends at once with the value "not
\* found" (no stack, not an exception), has issued no start, stop, restart or
\* pull request, and leaves the engine's containers as they were.
C3_EmptyTargetsNotFound ==
  [][\A c \in Callers :
       (/\ Begins(c)
        /\ socket = "up"
        /\ call'[c].result \notin ListingErrors
        /\ EmptyTargetSet(containers, call'[c].id, call'[c].services))
       => /\ call'[c].pc = "done"
          /\ call'[c].result = Return(<<>>)
          /\ actionRouteStatus(call'[c].result) = 404
          /\ call'[c].issued = <<>>
          /\ containers' = containers]_vars

\* C3 witness: a call on the compose project that names only a service the
\* project does not have has ended with "not found" and no request issued,
\* while the project has containers
C3_Witness ==
  /\ call["c1"].pc = "done"
  /\ call["c1"].id = S_papem_core
  /\ call["c1"].services = << <<S_ghost>> >>
  /\ call["c1"].result = Return(<<>>)
  /\ call["c1"].issued = <<>>
  /\ socket = "up"
  /\ \E i \in DOMAIN containers : resolveStackId(containers[i]) = S_papem_core

\* C4: whenever a listing has been asked for while the engine's socket is
\* absent, it has failed with the error the route answers with 503 (it has
\* not returned a list, empty or not).
C4_ListFailsWhenSocketAbsent ==
  (socket = "absent" /\ listResult # NoResult)
    => /\ listResult.kind = "throw"
       /\ listRouteStatus(listResult) = 503

\* C5: a call started while the engine's socket is absent ends at once with
\* the error the route answers with 503 (the engine being unavailable), and
\* has issued no start, stop, restart or pull request.
C5_ActionFailsUnavailableWhenSocketAbsent ==
  [][\A c \in Callers :
       (Begins(c) /\ socket = "absent")
       => /\ call'[c].pc = "done"
          /\ call'[c].result.kind = "throw"
          /\ actionRouteStatus(call'[c].result) = 503
          /\ call'[c].issued = <<>>]_vars

\* s holds part as a run of consecutive elements
Contains(s, part) ==
  \E k \in 0..(Len(s) - Len(part)) : SubSeq(s, k + 1, k + Len(part)) = part

\* C6: when the request for a container fails after the request for an
\* earlier container of the same call has succeeded, the error raised names
\* the service of the container that failed, and the step undoes nothing
\* (the engine's containers stay as the earlier requests left them).
C6_PartialFailureNamesService ==
  [][\A c \in Callers :
       (/\ call[c].pc = "apply"
        /\ call'[c].pc = "done"
        /\ call'[c].result.kind = "throw"
        /\ \E x \in DOMAIN call[c].issued : call[c].issued[x].ok)
       => /\ Contains(call'[c].result.error[1].message,
                      resolveServiceName(call[c].targets[call[c].i]))
          /\ containers' = containers]_vars

\* a listing is answered in this step
ListStep == lists' # lists /\ listResult' # NoResult

C8_ListingIsOfEngineRead ==
  listResult.kind = "value"
    => /\ listRead # <<>>
       /\ listRead[1] = containers
       /\ listResult = getContainerStacks("up", 200, listRead[1])

\* the stacks a listing or a call has returned
ReturnedStacks ==
  (IF listResult.kind = "value" THEN Range(listResult.value) ELSE {})
    \cup UNION {Range(call[c].result.value) : c \in Callers}

\* the aggregate of the states of the services a stack value lists
StatusOfServices(services) ==
  IF \A x \in DOMAIN services : services[x].state = "stopped" THEN "stopped"
  ELSE IF \A x \in DOMAIN services : services[x].state = "running" THEN "running"
  ELSE "degraded"

\* C9: the status of every stack value returned by a listing or by a call
\* is the aggregate of the states of the services that value lists (stopped
\* when all are stopped or there is none, running when all are running,
\* degraded otherwise), whatever actions came before.
C9_ReturnedStatusIsAggregate ==
  \A st \in ReturnedStacks : st.status = StatusOfServices(st.services)

\* the call ends in this step with a stack
ReturnsStack(c) ==
  Completes(c) /\ call'[c].result.kind = "value" /\ call'[c].result.value # <<>>

\* C10: a call that ends with a stack puts exactly one event, an event of
\* its action, in front of the telemetry; a call that ends with "not found"
\* or an error, and every step of a call that does not end it, leaves the
\* telemetry as it was.
C10_OneEventPerCompletedAction ==
  [][/\ \A c \in Callers :
          ReturnsStack(c)
          => /\ telemetryEvents' # <<>>
             /\ telemetryEvents' =
                  Take(<<telemetryEvents'[1]>> \o telemetryEvents, telemetryLimit)
             /\ telemetryEvents'[1].metric = <<"container.", call'[c].action>>
     /\ (\A c \in Callers : ~ReturnsStack(c)) => telemetryEvents' = telemetryEvents]_vars

\* C10 witness: a call has ended with a stack and the telemetry holds one
\* event more than at the start, the event of that call
C10_Witness ==
  /\ call["c1"].pc = "done"
  /\ call["c1"].result.kind = "value"
  /\ call["c1"].result.value # <<>>
  /\ Len(telemetryEvents) = Len(SeedTelemetry) + 1
  /\ telemetryEvents[1].metric = <<"container.", call["c1"].action>>

\* the fresh listing of the engine's containers holds the stack of call k
StackIsListed(k, sock, cs) ==
  /\ sock = "up"
  /\ \E i \in DOMAIN cs : resolveStackId(cs[i]) = k.id

\* C11: a call whose engine requests have all succeeded and whose fresh
\* listing holds the stack ends with that stack, whether or not the
\* telemetry event could be recorded: the only error such a call can end
\* with is the error of the listing itself.
C11_TelemetryFailureSwallowed ==
  [][\A c \in Callers :
       (/\ call[c].pc = "relist"
        /\ call'[c].pc = "done"
        /\ StackIsListed(call[c], socket, containers)
        /\ call'[c].result \notin ListingErrors)
       => /\ call'[c].result.kind = "value"
          /\ call'[c].result.value # <<>>
          /\ call'[c].result.value[1].id = call[c].id]_vars

\* C12: an error a call or a listing ends with tells the caller which of the
\* two it was: when the socket is absent the route answers with the status
\* it keeps for the engine being unavailable (503), and when the socket is
\* there and the engine has rejected a request it answers with another one.
C12_ErrorKindReachesCaller ==
  [][/\ \A c \in Callers :
          (Completes(c) /\ call'[c].result.kind = "throw")
          => /\ socket = "absent" => actionRouteStatus(call'[c].result) = 503
             /\ socket = "up" => actionRouteStatus(call'[c].result) # 503
     /\ (ListStep /\ listResult'.kind = "throw")
          => /\ socket = "absent" => listRouteStatus(listResult') = 503
             /\ socket = "up" => listRouteStatus(listResult') # 503]_vars

\* the words of a label: what stands between runs of "-", "_" and spaces
RECURSIVE WordsOf(_, _)
WordsOf(s, word) ==
  IF s = <<>> THEN (IF word = <<>> THEN <<>> ELSE <<word>>)
  ELSE IF s[1] \in {"-", "_", " "}
       THEN (IF word = <<>> THEN <<>> ELSE <<word>>) \o WordsOf(Tail(s), <<>>)
       ELSE WordsOf(Tail(s), Append(word, s[1]))

\* the words with a capital first letter, one space between two words
RECURSIVE TitleOfWords(_)
TitleOfWords(words) ==
  IF words = <<>> THEN <<>>
  ELSE <<toUpperCase(words[1][1])>> \o Tail(words[1])
         \o (IF Len(words) = 1 THEN <<>> ELSE <<" ">> \o TitleOfWords(Tail(words)))

\* the state the claim gives a service, from the states of its containers
StateOfContainers(cs) ==
  LET states == {mapContainerState(cs[i].State) : i \in DOMAIN cs}
  IN  IF states = {"running"} THEN "running"
      ELSE IF states = {"stopped"} THEN "stopped"
      ELSE IF "restarting" \in states THEN "restarting"
      ELSE "error"

S_Papem_Core == <<"P","a","p","e","m"," ","C","o","r","e">>

\* the listing read is two running containers of the service api and one
\* exited container of the service proxy, all of the project papem-core
PapemCoreScenario ==
  /\ Listed
  /\ Len(listRead[1]) = 3
  /\ \A i \in DOMAIN listRead[1] : listRead[1][i].Labels.project = <<S_papem_core>>
  /\ Cardinality({i \in DOMAIN listRead[1] :
                    /\ listRead[1][i].Labels.service = <<S_api>>
                    /\ listRead[1][i].State = "running"}) = 2
  /\ Cardinality({i \in DOMAIN listRead[1] :
                    /\ listRead[1][i].Labels.service = <<S_proxy>>
                    /\ listRead[1][i].State = "exited"}) = 1

\* C13: for every project label of the listing read, exactly one derived
\* stack has that label as its id; when the stack's containers are the
\* containers carrying the label, its name is the words of the label with a
\* capital first letter and one space between them, and for every service
\* label of the group it has exactly one service, with as many replicas as
\* the group has containers of that service and the state aggregated from
\* their states.  In particular papem-core with two running containers of
\* api and one exited container of proxy is listed as one stack "Papem
\* Core", degraded, with the services api (2 replicas, running) and proxy
\* (1 replica, stopped) in that order.
C13_GroupIsOneNamedStack ==
  /\ Listed =>
       LET cs == listRead[1]
           stacks == listResult.value
       IN  \A i \in DOMAIN cs :
             cs[i].Labels.project # <<>> /\ cs[i].Labels.project[1] # <<>> =>
               LET label == cs[i].Labels.project[1]
                   group == SelectSeq(cs, LAMBDA c : c.Labels.project = <<label>>)
                   mine == {a \in DOMAIN stacks : stacks[a].id = label}
               IN  /\ Cardinality(mine) = 1
                   /\ MembersOf(label) = group =>
                        \A a \in mine :
                          /\ stacks[a].name = TitleOfWords(WordsOf(label, <<>>))
                          /\ \A j \in DOMAIN group :
                               group[j].Labels.service # <<>> =>
                                 LET same == SelectSeq(group, LAMBDA c :
                                               c.Labels.service = group[j].Labels.service)
                                     its == {x \in DOMAIN stacks[a].services :
                                               <<stacks[a].services[x].name>>
                                                 = group[j].Labels.service}
                                 IN  /\ Cardinality(its) = 1
                                     /\ \A x \in its :
                                          /\ stacks[a].services[x].replicas = Len(same)
                                          /\ stacks[a].services[x].state
                                               = StateOfContainers(same)
  /\ PapemCoreScenario =>
       /\ Len(listResult.value) = 1
       /\ listResult.value[1].name = S_Papem_Core
       /\ listResult.value[1].status = "degraded"
       /\ [x \in DOMAIN listResult.value[1].services |->
             [name |-> listResult.value[1].services[x].name,
              replicas |-> listResult.value[1].services[x].replicas,
              state |-> listResult.value[1].services[x].state]]
            = << [name |-> S_api, replicas |-> 2, state |-> "running"],
                 [name |-> S_proxy, replicas |-> 1, state |-> "stopped"] >>

\* C13 witness: the papem-core scenario has been listed, the container of
\* proxy first, and the stack listed has the name "Papem Core"
C13_Witness ==
  /\ PapemCoreScenario
  /\ listRead[1][1].Labels.service = <<S_proxy>>
  /\ listResult.value[1].name = S_Papem_Core
  /\ Len(listResult.value[1].services) = 2

\* the same containers in other orders: reversed, rotated by one, and with
\* the first two exchanged
Reorderings(cs) ==
  IF Len(cs) < 2 THEN {cs}
  ELSE {[i \in DOMAIN cs |-> cs[Len(cs) + 1 - i]],
        Tail(cs) \o <<cs[1]>>,
        <<cs[2], cs[1]>> \o SubSeq(cs, 3, Len(cs))}

\* the order of a listing's result: the ids of the stacks, and the names of
\* the services of each
OrderOf(stacks) ==
  [a \in DOMAIN stacks |->
     [id |-> stacks[a].id,
      services |-> [x \in DOMAIN stacks[a].services |-> stacks[a].services[x].name]]]

\* the place of the first container of a stack in the listing read
FirstSeen(stackId) ==
  CHOOSE i \in DOMAIN listRead[1] :
    /\ resolveStackId(listRead[1][i]) = stackId
    /\ \A j \in 1..(i - 1) : resolveStackId(listRead[1][j]) # stackId

\* the names of the stacks ascend, and so do the names of the services of
\* every stack (no two services of a stack have one name)
SortedByName(stacks) ==
  /\ \A a, b \in DOMAIN stacks :
       a < b => localeCompare(stacks[a].name, stacks[b].name) <= 0
  /\ \A a \in DOMAIN stacks :
       \A x, y \in DOMAIN stacks[a].services :
         x < y => localeCompare(stacks[a].services[x].name,
                                stacks[a].services[y].name) < 0

\* C14 as stated: the stacks of a listing are sorted by display name and the
\* services of every stack by name, and the order of the result (which stack
\* comes where, with which services in which order) is the same whatever
\* order the engine lists the same containers in.
C14_OrderIndependentOfListing ==
  Listed =>
    /\ SortedByName(listResult.value)
    /\ \A r \in Reorderings(listRead[1]) :
         OrderOf(getContainerStacks("up", 200, r).value) = OrderOf(listResult.value)

\* C14 amended: the stacks of a listing are sorted by display name and the
\* services of every stack by name; stacks of one display name come in the
\* order in which the engine listed their first containers, so only among
\* them does the order depend on the engine's; which stacks there are, and
\* the order of the services of each, does not depend on it.
C14_SortedByNameTiesInEngineOrder ==
  Listed =>
    /\ SortedByName(listResult.value)
    /\ \A a, b \in DOMAIN listResult.value :
         (a < b /\ localeCompare(listResult.value[a].name, listResult.value[b].name) = 0)
           => FirstSeen(listResult.value[a].id) < FirstSeen(listResult.value[b].id)
    /\ \A r \in Reorderings(listRead[1]) :
         Range(OrderOf(getContainerStacks("up", 200, r).value))
           = Range(OrderOf(listResult.value))

\* C14 witness: a listing of three stacks, two of them of one display name
\* and the third with a name that sorts before theirs although the engine
\* listed its container last
C14_Witness ==
  /\ Listed
  /\ Len(listResult.value) = 3
  /\ listResult.value[2].name = listResult.value[3].name
  /\ listResult.value[2].id # listResult.value[3].id
  /\ resolveStackId(listRead[1][3]) = listResult.value[1].id
  /\ Len(listRead[1]) = 3

\* a port mapping as the claim renders it; a host port of 0 stands for none
RenderedPort(port) ==
  IF port.PublicPort = 0 THEN DecStr(port.PrivatePort) \o <<"/">> \o port.Type
  ELSE DecStr(port.PublicPort) \o <<":">> \o DecStr(port.PrivatePort)
         \o <<"/">> \o port.Type

\* the containers of the listing read that a service of a stack stands for
ReplicasOf(stackId, serviceName) ==
  SelectSeq(listRead[1], LAMBDA c : /\ resolveStackId(c) = stackId
                                    /\ resolveServiceName(c) = serviceName)

S_8080_80_tcp == <<"8","0","8","0",":","8","0","/","t","c","p">>

S_9090_tcp == <<"9","0","9","0","/","t","c","p">>

\* C15: the ports of every service listed are the rendered port mappings of
\* its containers, each once, in ascending order of their characters; a
\* service whose containers map 8080 to 80/tcp and expose 9090/tcp with no
\* host port has the ports "8080:80/tcp", "9090/tcp" in that order.
C15_PortsAreSortedUnion ==
  Listed =>
    \A a \in DOMAIN listResult.value :
      \A x \in DOMAIN listResult.value[a].services :
        LET ports == listResult.value[a].services[x].ports
            members == ReplicasOf(listResult.value[a].id,
                                  listResult.value[a].services[x].name)
            rendered == UNION {{RenderedPort(members[i].Ports[k]) :
                                  k \in DOMAIN members[i].Ports} : i \in DOMAIN members}
        IN  /\ Range(ports) = rendered
            /\ \A i, j \in DOMAIN ports : i < j => CodeUnitLess(ports[i], ports[j])
            /\ rendered = {S_8080_80_tcp, S_9090_tcp}
                 => ports = <<S_8080_80_tcp, S_9090_tcp>>

\* C15 witness: a service of two replicas whose containers have five port
\* mappings between them, two of them the same as another, is listed with
\* the three ports "80/tcp", "8080:80/tcp", "9090/tcp"
C15_Witness ==
  /\ Listed
  /\ \E a \in DOMAIN listResult.value :
       \E x \in DOMAIN listResult.value[a].services :
         /\ listResult.value[a].services[x].replicas = 2
         /\ listResult.value[a].services[x].ports
              = << <<"8","0","/","t","c","p">>, S_8080_80_tcp, S_9090_tcp >>

\* C16: the requests of a call are issued one at a time, each for the
\* target container after the one of the request before it (so none is
\* issued twice), and only while every request before it has succeeded: a
\* failed request is the last request of its call, and ends the call with an
\* error.
C16_OneAtATimeStopAtFailure ==
  [][\A c \in Callers :
       IF Begins(c) THEN call'[c].issued = <<>>
       ELSE \/ call'[c].issued = call[c].issued
            \/ /\ Len(call'[c].issued) = Len(call[c].issued) + 1
               /\ SubSeq(call'[c].issued, 1, Len(call[c].issued)) = call[c].issued
               /\ \A x \in DOMAIN call[c].issued : call[c].issued[x].ok
               /\ Len(call'[c].issued) <= Len(call[c].targets)
               /\ LET n == Len(call'[c].issued)
                      sent == call'[c].issued[n]
                      req == applyContainerAction(call[c].targets[n], call[c].action)
                  IN  /\ sent.op = req.op
                      /\ sent.arg = req.arg
                      /\ \A x \in 1..(n - 1) :
                           call[c].targets[x].Id # call[c].targets[n].Id
                      /\ ~sent.ok => /\ call'[c].pc = "done"
                                     /\ call'[c].result.kind = "throw"]_vars

\* C16 witness: a call with two target containers has ended with an error
\* after one request, the failed one
C16_Witness ==
  /\ call["c1"].pc = "done"
  /\ Len(call["c1"].targets) = 2
  /\ Len(call["c1"].issued) = 1
  /\ ~call["c1"].issued[1].ok
  /\ call["c1"].result.kind = "throw"

\* the kind of request the claim gives an action
KindOfAction(action) ==
  CASE action = "up" -> "start"
    [] action = "down" -> "stop"
    [] action = "restart" -> "restart"
    [] action = "pull" -> "pull"

\* C17: when a call has had all its requests answered with success (it is
\* about to list again, or has ended without an error after issuing
\* requests), it has issued exactly one request for every target container,
\* in the order of the targets, each of the kind of its action: start for
\* up, stop for down, restart for restart, all three naming the container's
\* id, and for pull a pull naming the container's image.
C17_OneRequestPerTargetOfActionKind ==
  \A c \in Callers :
    LET k == call[c]
    IN  (k.pc = "relist" \/ (k.pc = "done" /\ k.result.kind = "value" /\ k.targets # <<>>))
        => /\ Len(k.issued) = Len(k.targets)
           /\ \A x \in DOMAIN k.issued :
                /\ k.issued[x].ok
                /\ k.issued[x].op = KindOfAction(k.action)
                /\ k.issued[x].arg = IF k.action = "pull" THEN k.targets[x].Image
                                     ELSE k.targets[x].Id

\* C17 witness: a pull of a stack of two containers has ended with the
\* stack after two pulls, one of each container's image
C17_Witness ==
  /\ call["c1"].pc = "done"
  /\ call["c1"].action = "pull"
  /\ call["c1"].result.kind = "value"
  /\ call["c1"].result.value # <<>>
  /\ Len(call["c1"].issued) = 2
  /\ call["c1"].issued[1].arg # call["c1"].issued[2].arg

\* two strings are the same but for the case of their letters
EqualIgnoringCase(a, b) ==
  /\ Len(a) = Len(b)
  /\ \A i \in DOMAIN a : toUpperCase(a[i]) = toUpperCase(b[i])

\* the target set the claim gives a request: the containers of the stack,
\* all of them under no service list or an empty one, else those whose
\* service name is one of the names given, whatever the case of the letters
TargetSet(cs, id, services) ==
  LET members == SelectSeq(cs, LAMBDA c : resolveStackId(c) = id)
  IN  IF services = <<>> \/ services[1] = <<>> THEN members
      ELSE SelectSeq(members, LAMBDA c :
             \E x \in DOMAIN services[1] :
               EqualIgnoringCase(services[1][x], resolveServiceName(c)))

\* C18: a call whose first listing succeeds targets the containers of the
\* stack the claim names: every container of the stack when the request has
\* no service list or an empty one, else exactly the containers of the stack
\* whose service name (the service label, else the container's name, else
\* the first 12 characters of its id) is one of the names of the request
\* but for the case of its letters; and it goes on to the engine exactly
\* when that set is not empty.
C18_TargetsAreTheNamedServices ==
  [][\A c \in Callers :
       (/\ Begins(c)
        /\ socket = "up"
        /\ call'[c].result \notin ListingErrors)
       => /\ call'[c].targets = TargetSet(containers, call'[c].id, call'[c].services)
          /\ call'[c].pc = "apply" <=> call'[c].targets # <<>>]_vars

\* C18 witness: a request naming "API" and a name no container has is about
\* to list again after targeting the one container of the service api out
\* of the two containers of its stack
C18_Witness ==
  /\ call["c1"].services = << <<S_API, S_ghost>> >>
  /\ call["c1"].pc = "relist"
  /\ Len(call["c1"].targets) = 1
  /\ call["c1"].targets[1].Labels.service = <<S_api>>
  /\ Len(SelectSeq(containers, LAMBDA k : resolveStackId(k) = S_papem_core)) = 2

\* C19: a call that ends with a stack reports, in the telemetry event it
\* records and in the lastAction of the stack it returns, the count the
\* claim gives: the number of service names of the request when it has a
\* service list, the number of services of the stack returned when it has
\* none (either of the two when the list is empty).
C19_CountIsOfServices ==
  [][\A c \in Callers :
       ReturnsStack(c) =>
         LET stack == call'[c].result.value[1]
             services == call'[c].services
             counts == IF services = <<>> THEN {Len(stack.services)}
                       ELSE IF services[1] = <<>> THEN {0, Len(stack.services)}
                       ELSE {Len(services[1])}
         IN  /\ telemetryEvents' # <<>>
             /\ telemetryEvents'[1].value \in counts
             /\ Contains(stack.lastAction, DecStr(telemetryEvents'[1].value))]_vars

\* C20: every container of the listing read that has no project label is a
\* stack of its own: the stack that holds it holds no other container (one
\* service, of one replica), whatever the other containers are.
C20_UnlabelledIsSingleton ==
  Listed =>
    \A i \in DOMAIN listRead[1] :
      listRead[1][i].Labels.project = <<>> =>
        /\ Len(MembersOf(resolveStackId(listRead[1][i]))) = 1
        /\ \E a \in DOMAIN listResult.value :
             /\ listResult.value[a].id = resolveStackId(listRead[1][i])
             /\ Len(listResult.value[a].services) = 1
             /\ listResult.value[a].services[1].replicas = 1

\* C21: the state of every service listed is decided by the engine states
\* of its containers: running when all of them are running, stopped when
\* all of them are paused, created or exited, restarting when neither holds
\* and one of them is restarting, error in every other case.
C21_ServiceStateIsAggregate ==
  Listed =>
    \A a \in DOMAIN listResult.value :
      \A x \in DOMAIN listResult.value[a].services :
        LET raw == {c.State : c \in Range(ReplicasOf(listResult.value[a].id,
                                            listResult.value[a].services[x].name))}
            state == listResult.value[a].services[x].state
        IN  /\ raw # {}
            /\ state = "running" <=> raw = {"running"}
            /\ state = "stopped" <=> raw \subseteq {"paused", "created", "exited"}
            /\ state = "restarting" <=>
                 /\ "restarting" \in raw
                 /\ raw # {"running"}
                 /\ ~(raw \subseteq {"paused", "created", "exited"})
            /\ state \in {"running", "stopped", "restarting", "error"}

\* C21 witness: a service of three replicas, one running, one exited and
\* one restarting, is listed as restarting
C21_Witness ==
  /\ Listed
  /\ \E a \in DOMAIN listResult.value :
       \E x \in DOMAIN listResult.value[a].services :
         LET raw == {c.State : c \in Range(ReplicasOf(listResult.value[a].id,
                                             listResult.value[a].services[x].name))}
         IN  /\ raw = {"running", "exited", "restarting"}
             /\ listResult.value[a].services[x].state = "restarting"
             /\ listResult.value[a].services[x].replicas = 3

\* C22: a request the engine has answered with a status outside 200..299
\* has failed: it is the last request of its call, and the call has ended
\* with an error whose message holds the status code and the body the
\* engine sent.
C22_NonSuccessStatusFails ==
  \A c \in Callers :
    \A x \in DOMAIN call[c].issued :
      LET sent == call[c].issued[x]
      IN  (sent.status # 0 /\ sent.status \notin 200..299)
          => /\ ~sent.ok
             /\ x = Len(call[c].issued)
             /\ call[c].pc = "done"
             /\ call[c].result.kind = "throw"
             /\ Contains(call[c].result.error[1].message, DecStr(sent.status))
             /\ Contains(call[c].result.error[1].message, RawBody)

\* the place of the last c in s, 0 when s has none
LastPlaceOf(c, s) ==
  IF \E i \in DOMAIN s : s[i] = c
  THEN CHOOSE i \in DOMAIN s : s[i] = c /\ \A j \in (i + 1)..Len(s) : s[j] # c
  ELSE 0

\* an image reference has a tag when its last colon comes after its last
\* slash
HasTag(image) == LastPlaceOf(":", image) > LastPlaceOf("/", image)

RepositoryOf(image) ==
  IF HasTag(image) THEN SubSeq(image, 1, LastPlaceOf(":", image) - 1) ELSE image

S_latest == <<"l","a","t","e","s","t">>

TagOf(image) ==
  IF HasTag(image) THEN SubSeq(image, LastPlaceOf(":", image) + 1, Len(image))
  ELSE S_latest

\* C23: every pull a call has issued is for the image of its target
\* container split in two: the request's fromImage is the repository (the
\* reference up to its last colon when that colon comes after the last
\* slash, the whole reference otherwise) and its tag is the rest, "latest"
\* when the reference has no tag.
C23_PullSplitsRepositoryAndTag ==
  \A c \in Callers :
    \A x \in DOMAIN call[c].issued :
      call[c].issued[x].op = "pull" =>
        /\ call[c].issued[x].arg = RepositoryOf(call[c].targets[x].Image)
        /\ call[c].issued[x].tag = <<TagOf(call[c].targets[x].Image)>>

\* the last value of a sequence that is not empty, empty when it has none
LastNonEmpty(values) ==
  IF \E i \in DOMAIN values : values[i] # <<>>
  THEN values[CHOOSE i \in DOMAIN values :
                values[i] # <<>> /\ \A j \in (i + 1)..Len(values) : values[j] = <<>>]
  ELSE <<>>

\* C24: the image and the lastEvent of every service listed are the image
\* and the status line of the last of its containers, in the order of the
\* listing read, that has one: a container after it without one does not
\* replace it, a container after it with one does.
C24_ImageAndEventAreLatest ==
  Listed =>
    \A a \in DOMAIN listResult.value :
      \A x \in DOMAIN listResult.value[a].services :
        LET members == ReplicasOf(listResult.value[a].id,
                                  listResult.value[a].services[x].name)
        IN  /\ listResult.value[a].services[x].image
                 = LastNonEmpty([i \in DOMAIN members |-> members[i].Image])
            /\ listResult.value[a].services[x].lastEvent
                 = LastNonEmpty([i \in DOMAIN members |-> members[i].Status])

\* the containers of the project papem-core the engine holds
ProjectContainers == SelectSeq(containers, LAMBDA k : resolveStackId(k) = S_papem_core)

\* C25: nothing holds a call back while another is in flight: a second call
\* can be begun whenever the first is in flight, and a call that has
\* requests left can always issue its next request, whatever the other call
\* has done to the same containers.
C25_CallsAreNotExcluded ==
  /\ (InFlight(call["c1"]) /\ ~InFlight(call["c2"]) /\ nOps < MaxConcOps)
       => ENABLED ConcBegin("c2")
  /\ \A c \in Callers : call[c].pc = "apply" => ENABLED PerformApply(c)

\* C25 witness: an up and a down of the same project, each with both its
\* requests accepted by the engine and nobody else at work, have ended and
\* left one container of the project running and the other exited; both
\* have put their event in the one telemetry log
C25_Witness ==
  /\ call["c1"].pc = "done" /\ call["c2"].pc = "done"
  /\ {call["c1"].action, call["c2"].action} = {"up", "down"}
  /\ \A c \in Callers :
       /\ call[c].result.kind = "value"
       /\ call[c].result.value # <<>>
       /\ Len(call[c].issued) = 2
       /\ \A x \in DOMAIN call[c].issued : call[c].issued[x].status = 204
  /\ {call["c1"].issued[x].arg : x \in 1..2} = {call["c2"].issued[x].arg : x \in 1..2}
  /\ nExternal = 0
  /\ {ProjectContainers[i].State : i \in DOMAIN ProjectContainers} = {"running", "exited"}
  /\ Len(telemetryEvents) = Len(SeedTelemetry) + 2

\* what a request names of a container: its image for a pull, else its id
NamedBy(op, container) == IF op = "pull" THEN container.Image ELSE container.Id

\* C26: the targets of a call are containers its first listing held for its
\* stack id, and stay what they are until the call ends; every request the
\* call issues names one of them; and a step of the call changes no
\* container of the engine but the target of the request it issues,
\* whatever has been added to or removed from the engine since the listing.
C26_OnlyListedTargetsAreMutated ==
  [][\A c \in Callers :
       /\ IF Begins(c)
          THEN \A x \in DOMAIN call'[c].targets :
                 /\ call'[c].targets[x] \in Range(containers)
                 /\ resolveStackId(call'[c].targets[x]) = call'[c].id
          ELSE call'[c].targets = call[c].targets /\ call'[c].id = call[c].id
       /\ \A x \in DOMAIN call'[c].issued :
            \E y \in DOMAIN call'[c].targets :
              call'[c].issued[x].arg = NamedBy(call'[c].issued[x].op, call'[c].targets[y])
       /\ (call'[c] # call[c] /\ containers' # containers)
            => /\ Len(containers') = Len(containers)
               /\ Len(call'[c].issued) = Len(call[c].issued) + 1
               /\ \A i \in DOMAIN containers :
                    containers'[i] # containers[i]
                      => /\ containers[i].Id = call'[c].issued[Len(call'[c].issued)].arg
                         /\ \E y \in DOMAIN call[c].targets :
                              call[c].targets[y].Id = containers[i].Id]_vars

\* C26 witness: a down of the whole project has ended with the stack after
\* two requests although the engine holds three containers of the project,
\* the one added after the call's listing still as it was created
C26_Witness ==
  /\ call["c1"].pc = "done"
  /\ call["c1"].action = "down"
  /\ call["c1"].result.kind = "value"
  /\ call["c1"].result.value # <<>>
  /\ Len(call["c1"].issued) = 2
  /\ Len(ProjectContainers) = 3
  /\ ProjectContainers[1] = NewReplica
  /\ \A x \in 1..2 : call["c1"].issued[x].arg # NewReplica.Id

\* C27: a call whose requests have all succeeded and whose fresh listing
\* does not fail and does not hold its stack (the stack's containers are
\* gone, or the socket is) ends with "not found": the route answers 404, no
\* telemetry event is recorded, and the requests stay applied (the step
\* changes no container, every request of the call has been accepted).
C27_GoneAfterActionIsNotFound ==
  [][\A c \in Callers :
       (/\ call[c].pc = "relist"
        /\ call'[c].pc = "done"
        /\ call'[c].result.kind # "throw"
        /\ ~StackIsListed(call[c], socket, containers))
       => /\ call'[c].result = Return(<<>>)
          /\ actionRouteStatus(call'[c].result) = 404
          /\ telemetryEvents' = telemetryEvents
          /\ containers' = containers
          /\ call'[c].issued = call[c].issued
          /\ Len(call[c].issued) = Len(call[c].targets)
          /\ \A x \in DOMAIN call[c].issued : call[c].issued[x].ok]_vars

\* C27 witness: the start of the container db was accepted, the container
\* was removed, and the call has ended with "not found" and nothing added
\* to the telemetry
C27_Witness ==
  /\ call["c1"].pc = "done"
  /\ call["c1"].id = S_db
  /\ call["c1"].result = Return(<<>>)
  /\ Len(call["c1"].issued) = 1
  /\ call["c1"].issued[1].status = 204
  /\ socket = "up"
  /\ ~HasContainer(containers, call["c1"].issued[1].arg)
  /\ telemetryEvents = SeedTelemetry

\* the unresolved alerts of a type that a server has
UnresolvedOf(serverId, alertType) ==
  {i \in DOMAIN alerts : /\ alerts[i].serverId = serverId
                         /\ alerts[i].alertType = alertType
                         /\ ~alerts[i].isResolved}

\* C28: whatever the interleaving of metrics timer firings and alert
\* resolutions (no alert being posted by hand), every server has at most one
\* unresolved alert of each of the types cpu, memory and disk.
C28_OneUnresolvedAlertPerType ==
  \A s \in Range(servers), alertType \in {"cpu", "memory", "disk"} :
    Cardinality(UnresolvedOf(s.id, alertType)) <= 1

CredentialFields == {"sshPassword", "sshPrivateKey"}

\* the same store with every credential blanked
WithoutCredentials(rows) ==
  [i \in DOMAIN rows |-> [rows[i] EXCEPT !.sshPassword = <<>>, !.sshPrivateKey = <<>>]]

\* C29: no record sent to a client (the responses of GET /api/servers,
\* GET /api/servers/:id, POST /api/servers and PUT /api/servers/:id, and every
\* servers_update message) has an sshPassword or sshPrivateKey field, and what
\* the store answers for the list and for each server is what a store that
\* differs only in those two fields answers.
C29_NoCredentialsSent ==
  /\ \A i \in DOMAIN wire : \A j \in DOMAIN wire[i].data :
       DOMAIN wire[i].data[j] \cap CredentialFields = {}
  /\ getPublicServersWithLatestMetrics(servers, serverMetrics, alerts)
       = getPublicServersWithLatestMetrics(WithoutCredentials(servers), serverMetrics, alerts)
  /\ \A id \in 1 .. Len(servers) + 1 :
       getPublicServer(servers, id) = getPublicServer(WithoutCredentials(servers), id)

\* a servers_update message carried a server that is stored with a password
\* and a private key
C29_Witness ==
  \E i \in DOMAIN wire, r \in DOMAIN servers :
    /\ wire[i].type = "servers_update"
    /\ servers[r].sshPassword # <<>>
    /\ servers[r].sshPrivateKey # <<>>
    /\ \E j \in DOMAIN wire[i].data : wire[i].data[j].id = servers[r].id

\* the first min(n, size) events of a log
FirstEvents(events, n) ==
  [i \in 1 .. (IF n < Len(events) THEN n ELSE Len(events)) |-> events[i]]

\* no event is older than the one after it
NewestFirst(events) ==
  \A i \in 1 .. Len(events) - 1 : events[i].recordedAt >= events[i + 1].recordedAt

\* queries that carry a plain positive limit, and the limit
PlainLimits ==
  { [param |-> <<"3">>, n |-> 3], [param |-> <<"5", "0">>, n |-> 50],
    [param |-> <<"2", "0", "0">>, n |-> 200], [param |-> <<"2", "5", "0">>, n |-> 250] }

\* C30: after every recordTelemetryEvent call (posted, or made by an action)
\* the log holds at most 200 events, newest first: the call puts its event,
\* stamped with the current time, in front of the events the log held, the
\* oldest of 200 being dropped.  getTelemetryEvents(limit) returns the first
\* min(limit, size) events of the log, and the first min(50, size) when no
\* limit is given; so does GET /api/telemetry/events for a query with a
\* positive limit and for one without a limit.
C30_LogBoundedNewestFirst ==
  [][/\ Len(telemetryEvents') <= 200
     /\ NewestFirst(telemetryEvents')
     /\ telemetryEvents' # telemetryEvents
          => /\ telemetryEvents'[1].recordedAt = clock'
             /\ Tail(telemetryEvents') =
                  IF Len(telemetryEvents) = 200 THEN SubSeq(telemetryEvents, 1, 199)
                  ELSE telemetryEvents
     /\ \A n \in {0, 3, 50, 200, 250} :
          getTelemetryEvents(telemetryEvents', <<n>>) = FirstEvents(telemetryEvents', n)
     /\ getTelemetryEvents(telemetryEvents', <<>>) = FirstEvents(telemetryEvents', 50)
     /\ (wire' # wire /\ wire' # <<>> /\ wire'[1].type = "request")
          => /\ wire'[1].limit = <<>>
                  => wire'[2].data = FirstEvents(telemetryEvents, 50)
             /\ \A q \in PlainLimits :
                  wire'[1].limit = <<q.param>>
                    => wire'[2].data = FirstEvents(telemetryEvents, q.n)]_vars

\* a full log took one more event, its oldest event went, and a query without
\* a limit was answered with 50 of its 200 events
C30_Witness ==
  /\ Len(telemetryEvents) = 200
  /\ telemetryEvents[200].serverId # <<"server-6">>
  /\ wire # <<>>
  /\ wire[1].type = "request"
  /\ wire[1].limit = <<>>
  /\ Len(wire[2].data) = 50
  /\ wire[2].data[1] = telemetryEvents[1]

=============================================================================
